---- MODULE Spec2Model ----
(***************************************************************************)
(* A model of the Kiwi microkernel's synchronous IPC layer                 *)
(* (kernel/src/ipc/message.rs) running on the cooperative executor         *)
(* (kernel/src/future/executor.rs) with its wait queues                    *)
(* (kernel/src/future/wait.rs), task-local data (kernel/src/future/task.rs)*)
(* and the IPC syscall layer (kernel/src/user/syscall/ipc.rs).             *)
(*                                                                         *)
(* The executor polls one task at a time.  A poll runs a task from its     *)
(* last suspension point to the next one; in between the task may execute  *)
(* any number of syscalls.  Each action below is one syscall, one          *)
(* iteration of a loop of send/receive, or one run_once dispatch.  Only    *)
(* the task named by CURRENT_TASK_ID can act.                              *)
(*                                                                         *)
(* The second half models the physical frame allocator (kernel/src/pmm.rs) *)
(* and the SV39 page tables (kernel/src/arch/riscv64/mmu.rs): the frame    *)
(* directory, the tables held in frames, the root tables of the threads    *)
(* and the table the hart walks.  SpecPmm drives the allocator alone,      *)
(* SpecMmu drives map, unmap and the drop of a root table on top of it.    *)
(*                                                                         *)
(* The third part models the scheduling of the executor with its virtual   *)
(* runtimes and the thread loop with its quantum (kernel/src/future/       *)
(* user.rs, arch/riscv64/timer.rs) under SpecSched, the service registry   *)
(* (kernel/src/ipc/service.rs) under SpecRegistry, the user-operation gate *)
(* (kernel/src/user/op.rs, arch/generic/irq.rs) under SpecGate and the     *)
(* wait queues on their own under SpecWait.                                *)
(*                                                                         *)
(* The last part holds the address translation of the kernel window        *)
(* (arch/riscv64/mmu.rs, arch/riscv64/addr) under SpecTranslate, the       *)
(* copies between the kernel and the user buffers of a thread              *)
(* (kernel/src/user/op.rs, user/syscall/ipc.rs) under SpecCopy, the locks  *)
(* send and receive take, closure by closure, under SpecLocks, and the     *)
(* echo service with its clients (user/echo, user/init) under SpecEcho.    *)
(***************************************************************************)
EXTENDS Integers, Sequences, FiniteSets, TLC

\* ------------------------------------------------------------------ bounds
MaxTasks == 3      \* tasks spawned at boot, identifiers 0 .. MaxTasks-1
MaxSyscalls == 3   \* syscalls a single task may issue
MaxTotal == 4      \* syscalls issued by all tasks together
MaxKind == 1       \* message kinds / reply statuses are 0 .. MaxKind
MaxByte == 1       \* non-zero payload bytes are 1 .. MaxByte
MaxData == 1       \* user buffers carry at most MaxData non-zero bytes
PairSyscalls == 6  \* syscalls a single task may issue when two tasks run
PairTotal == 10    \* syscalls issued by both tasks together when two run
NFrames == 7        \* pages of RAM
RamStartPage == 8   \* RAM starts at page RamStartPage of the physical space
FirmwareFrames == 1 \* pages of the firmware window at the start of RAM
KernelFrames == 1   \* pages of the kernel image and of the allocator's bitmap
MaxCount == 3       \* ranges asked of the allocator have 0 .. MaxCount frames
MaxCalls == 4       \* calls made to the allocator in one run
TableEntries == 4   \* entries of a page table (512 in SV39), half of them user
MaxRoots == 2       \* root tables (threads) alive at a time
MaxMmuCalls == 4    \* calls made to the MMU and the allocator in one run
MaxDepth == 4       \* calls of unmap_all the kernel stack is taken to hold
TickNs == 2         \* nanoseconds in a tick of the time register
MaxRunTicks == 2    \* ticks in the quantum of a thread (25 ms in config.rs)
MaxTime == 5        \* the time register is followed up to this tick
MaxPolls == 5       \* calls of run_once in one run
MaxNames == 3       \* service names are 1 .. MaxNames
MaxCopies == 3      \* user operations performed in one run
WordBits == 30      \* bits of a usize (64 on the target)
MaxStep == 24       \* physical addresses tried: up to MaxStep eighths of a GiB
EchoSends == 1      \* messages each client sends to the echo service
EchoSyscalls == 5   \* syscalls the echo service may issue: enough to receive
                    \* and answer every message and to wait for one more
EchoTotal == 7      \* syscalls of the echo service and its two clients

\* ------------------------------------------------------- program constants
MAX_PAYLOAD_SIZE == 256   \* ipc::message::Message::MAX_PAYLOAD_SIZE
MAX_TASKS == 32           \* config::MAX_TASKS, capacity of ready_ids
PAGE_SIZE == 4096         \* arch::riscv64::mmu::PAGE_SIZE

Ids == 0 .. (MaxTasks - 1)
\* identifiers a user may name: every spawned task and one that never existed
TargetIds == 0 .. MaxTasks
Kinds == 0 .. MaxKind

\* Option<T> is a set with at most one element.
None == {}
Some(x) == {x}
TheOne(s) == CHOOSE x \in s : TRUE

\* ------------------------------------------------------------ payloads
\* let mut buf = [0; 256]; buf[..payload.len()].copy_from_slice(payload); buf
CopyPrefix(payload) ==
    [i \in 1 .. MAX_PAYLOAD_SIZE |-> IF i <= Len(payload) THEN payload[i] ELSE 0]

\* &array[..n]   (n <= MAX_PAYLOAD_SIZE; a larger n panics, see SliceOk)
SliceTo(array, n) == SubSeq(array, 1, n)

\* whether &array[..n] is in range for a 256-byte array
SliceOk(n) == n <= MAX_PAYLOAD_SIZE

\* the buffers and lengths a user task may pass in a Message or Reply
Prefixes == [1 .. MaxData -> 1 .. MaxByte]
UserBufs == {CopyPrefix(p) : p \in Prefixes}
PayloadLens == {MaxData, MAX_PAYLOAD_SIZE + 1}
\* when two tasks run: the two tasks and an identifier that never existed,
\* payload lengths in range
PairTargetIds == 0 .. 2
PairLens == {MaxData}

\* ------------------------------------------------------ IpcWaitingState
StNone == [st |-> "None", from |-> None]
StWaitingForSend == [st |-> "WaitingForSend", from |-> None]
StWaitingForMessage == [st |-> "WaitingForMessage", from |-> None]
StWaitingForReply(peer) == [st |-> "WaitingForReply", from |-> Some(peer)]

VARIABLES
    \* executor.rs
    tasks,          \* Executor.tasks: ids of the tasks stored in the map
    current,        \* CURRENT_TASK_ID: Option<Identifier>
    ready_ids,      \* Executor.ready_ids: FIFO of woken ids
    ready_queue,    \* Executor.ready_queue: ids in ascending vruntime order
    \* task.rs: TASK_LOCAL_DATA_MAP and the LocalDataSet of each id
    alive,              \* keys of TASK_LOCAL_DATA_MAP
    ipc_waiting_state,
    ipc_message,
    ipc_reply,
    ipc_receive_queue,
    ipc_reply_queue,
    ipc_send_queue,
    poisoned_reply,     \* ids whose ipc_reply_queue is poisoned
    poisoned_send,      \* ids whose ipc_send_queue is poisoned
    \* the state of each task's future
    pc,             \* where the future of the task stands
    send_to,        \* `to` of the send in progress
    send_message,   \* `message` of the send in progress
    \* what user space and the machine observe
    result,         \* outcome of the last syscall of each task
    panicked,       \* the kernel has panicked
    \* history variables
    budget,         \* syscalls the tasks of this run may issue: each, total
    nsys,           \* syscalls issued by each task
    last_received,  \* last_received[b][a]: tag of the last message b got from a
    replies_for,    \* <<tag, reply>>: the replies deposited for that message
    \* pmm.rs
    bitmap,         \* BITMAP: the FrameFlags of each frame of RAM
    \* arch/riscv64/mmu.rs
    mem,            \* the page-table entries held in each frame of RAM
    roots,          \* the live RootTables, each with its 512 entries
    active,         \* the root table the hardware walks (satp)
    \* history variables
    held,           \* frames handed out by allocate_range and not returned
    stray,          \* deallocate_range was given a frame that was not held
    last_call,      \* the last call of the allocator or the MMU, its result
    \* task.rs, executor.rs
    vruntime,       \* Task.vruntime of each task, nanoseconds
    ready_keys,     \* the keys of Executor.ready_queue, ready_keys[i] the key
                    \* of ready_queue[i]; empty where the keys are left open
    \* arch/riscv64/timer.rs
    time,           \* the time register, in ticks
    timer,          \* the tick the supervisor timer is set to, if it is set
    \* future/user.rs: the locals of each thread_loop
    remaining,      \* `remaining`, nanoseconds
    trap_start,     \* `start` of the trap handling, nanoseconds since boot
    \* time::spent_into in Task::poll
    poll_start,     \* `start` of the poll in progress, nanoseconds
    \* history variables
    last_run,       \* the last run_once: the queues it found, what it polled
    last_end,       \* how the last poll that is over ended
    last_exec,      \* the last iteration of a thread loop
    exited,         \* threads that invoked TaskExit or trapped on an exception
    \* ipc/service.rs
    registry,       \* SERVICE_REGISTRY: the (name, id) entries of the map
    \* history variables
    owner,          \* for each name, the ids whose register returned Ok
    last_register,  \* the last register: arguments, result, registry before
    last_lookup,    \* the last lookup: name, value, owners of the name then
    \* the hart: sstatus
    sum,            \* sstatus.SUM: supervisor access to user pages
    sie,            \* sstatus.SIE: interrupts enabled
    \* user/op.rs
    user_operation, \* USER_OPERATION
    gate_pc,        \* where perform_user_operation stands
    irq_state,      \* `state` of irq::without
    was_in_operation,   \* `was_in_operation` of start/end_user_operation
    \* history variable
    gate_log,       \* the user operations so far: how many, the interrupt
                    \* state before the last one and after it, its entry point
    \* history variable
    translation,    \* a physical address, what translate_physical made of
                    \* it and what translate_virtual_kernel made of that
    \* future/user.rs, user/syscall/ipc.rs: the thread of each task
    thread_pc,      \* where the thread loop of the task stands
    awake,          \* parked tasks whose waker was called
    \* history variables
    ran_since,      \* the threads executed since the task parked
    copy_log,       \* the last gated copy: its thread, the active table
    \* ipc/message.rs: send and receive statement by statement
    lock_pc,        \* the statement each task stands at, its target, and
                    \* whether its loop has gone round
    held_by         \* the lock guards each task holds

execVars == <<tasks, current, ready_ids, ready_queue>>
queueVars == <<ipc_receive_queue, ipc_reply_queue, ipc_send_queue>>
slotVars == <<ipc_waiting_state, ipc_message, ipc_reply>>
lifeVars == <<alive, poisoned_reply, poisoned_send>>
futVars == <<pc, send_to, send_message>>
histVars == <<budget, nsys, last_received, replies_for>>
ipcVars == <<execVars, queueVars, slotVars, lifeVars, futVars, result, histVars>>
memVars == <<bitmap, mem, roots, active, held, stray, last_call>>
schedVars == <<vruntime, ready_keys, time, timer, remaining, trap_start,
               poll_start, last_run, last_end, last_exec, exited>>
regVars == <<registry, owner, last_register, last_lookup>>
gateVars == <<sum, sie, user_operation, gate_pc, irq_state, was_in_operation, gate_log>>
copyVars == <<thread_pc, awake, ran_since, copy_log>>
lockVars == <<lock_pc, held_by>>
extraVars == <<translation, copyVars, lockVars>>
otherVars == <<regVars, gateVars, extraVars>>
laterVars == <<schedVars, otherVars>>
vars == <<ipcVars, panicked, memVars, laterVars>>


\* ----------------------------------------------------------- messages
\* ipc::message::Message built by send (lines 134-144) and reply (300-310).
\* `tag` and `during` are history fields.  For a message, tag <<sender, n>>
\* names the n-th syscall of the sender, the send that built it.  For a
\* reply, tag is the tag of the last message the replier received from `to`,
\* and during is the tag of the send `to` was executing when reply was called.
KernelMessage(from, to, operation, payload, tag, during) ==
    [sender |-> from, receiver |-> to, operation |-> operation,
     payload_len |-> Len(payload), payload |-> CopyPrefix(payload), tag |-> tag,
     during |-> during]

\* syscall::ipc::Reply written back by the send syscall (lines 174-182)
UserReply(reply) ==
    [status |-> reply.operation, payload_len |-> reply.payload_len,
     payload |-> CopyPrefix(SliceTo(reply.payload, reply.payload_len))]

\* syscall::ipc::Message written back by the receive syscall (lines 223-234)
UserMessage(received) ==
    [sender |-> received.sender, receiver |-> received.receiver,
     kind |-> received.operation, payload_len |-> received.payload_len,
     payload |-> CopyPrefix(SliceTo(received.payload, received.payload_len))]

NoTag == <<>>

\* The outcome of a syscall as seen by the caller.  op, err and value are what
\* user space gets; the others are history fields: tag (the message
\* concerned), to (the peer named), oversize (the payload_len passed exceeds
\* MAX_PAYLOAD_SIZE), peer_state (the waiting state of the message's sender
\* when receive returned), re and during (the tag and during fields of the
\* reply that send returned).  err = "Pending" while the syscall has not
\* returned, "Panic" when the kernel panicked in it.
Outcome(op, err, value, tag, to, oversize, peer_state, re, during) ==
    [op |-> op, err |-> err, value |-> value, tag |-> tag, to |-> to,
     oversize |-> oversize, peer_state |-> peer_state, re |-> re,
     during |-> during]

NoResult == Outcome("none", "Ok", None, NoTag, None, FALSE, None, NoTag, NoTag)

\* ------------------------------------------------------------ task.rs
\* a check that finds every identifier in the map
exists_always(id) == TRUE

\* future::task::exists
exists(id) == id \in alive

\* a drop that wakes the reply queue only
DropWoken_reply_only(t) == ipc_reply_queue[t]

\* a drop that wakes the waiters of the send queue twice
DropWoken_twice(t) == ipc_reply_queue[t] \o ipc_send_queue[t] \o ipc_send_queue[t]

\* LocalDataSet::drop: the wakers woken, reply queue first, then send queue
DropWoken(t) == ipc_reply_queue[t] \o ipc_send_queue[t]

\* --------------------------------------------------------- executor
Total == LET RECURSIVE Sum(_)
             Sum(S) == IF S = {} THEN 0
                       ELSE LET x == CHOOSE y \in S : TRUE
                            IN nsys[x] + Sum(S \ {x})
         IN Sum(Ids)

\* a user thread is executing inside the poll of task t
Running(t) == ~panicked /\ current = Some(t)

\* the thread of task t is in user mode and may trap into a syscall
InUser(t) == Running(t) /\ pc[t] = "user"

MaySyscall(t) == InUser(t) /\ nsys[t] < budget.each /\ Total < budget.total

\* Waker::wake for each id of `woken`: ready_ids.push(id).expect("Queue is full")
WakeOverflow(woken) == Len(ready_ids \o woken) > MAX_TASKS

\* a Pending that leaves the current task id set
Suspend_still_current(t) == tasks' = tasks \cup {t} /\ current' = current

\* run_once, Poll::Pending: the task goes back into the map, the current
\* task id is cleared.
Suspend(t) == tasks' = tasks \cup {t} /\ current' = None

InsertAt(q, id, p) == SubSeq(q, 1, p - 1) \o <<id>> \o SubSeq(q, p, Len(q))

\* process_ready_ids.  The ready queue is kept as the sequence of its ids in
\* key order.  A drained id gets the key max(task.vruntime, lowest), bumped
\* past equal keys, where `lowest` is the smallest key before the drain: it
\* lands anywhere behind the entry that was first before the drain (anywhere
\* at all when the queue was empty).  Ids without a task are skipped.
RECURSIVE Drain(_, _, _)
Drain(ids, q, first) ==
    IF ids = <<>> THEN {q}
    ELSE IF Head(ids) \in tasks
         THEN UNION {Drain(Tail(ids), InsertAt(q, Head(ids), p), first) :
                        p \in first .. (Len(q) + 1)}
         ELSE Drain(Tail(ids), q, first)

process_ready_ids ==
    Drain(ready_ids, ready_queue, IF ready_queue = <<>> THEN 1 ELSE 2)

\* a second poll that returns Pending again
Resumed_asleep(p) == p

\* the second poll of a WaitFuture or YieldFuture returns Ready: the future
\* of the task continues behind the await it was suspended in.
Resumed(p) ==
    CASE p = "send_wait" -> "send1"
      [] p = "reply_wait" -> "send2"
      [] p = "recv_wait" -> "recv"
      [] p = "yield_wait" -> "user"
      [] OTHER -> p

\* Executor::run_once up to the poll of the chosen task
RunOnce ==
    /\ ~panicked
    /\ current = None
    /\ ready_ids # <<>> \/ ready_queue # <<>>
    /\ \E q \in process_ready_ids :
        /\ ready_ids' = <<>>
        /\ IF q = <<>>
           THEN /\ ready_queue' = q
                /\ UNCHANGED <<tasks, current, pc>>
           ELSE /\ ready_queue' = Tail(q)
                /\ IF Head(q) \in tasks
                   THEN /\ tasks' = tasks \ {Head(q)}
                        /\ current' = Some(Head(q))
                        /\ pc' = [pc EXCEPT ![Head(q)] = Resumed(@)]
                   ELSE UNCHANGED <<tasks, current, pc>>
    /\ UNCHANGED <<queueVars, slotVars, lifeVars, send_to, send_message,
                   result, panicked, histVars>>
    /\ UNCHANGED <<memVars, laterVars>>


\* ------------------------------------------------------------ helpers
\* a syscall of task t returns to user mode with the given outcome
Return(t, outcome) ==
    /\ pc' = [pc EXCEPT ![t] = "user"]
    /\ result' = [result EXCEPT ![t] = outcome]

Issued(t) == nsys' = [nsys EXCEPT ![t] = @ + 1] /\ UNCHANGED budget

\* ---------------------------------------------------------------- send
\* syscall::ipc::send (lines 149-171) entering ipc::message::send
\* (lines 118-144): validation and construction of the message.
SysSend(t, to, kind, len, buf) ==
    /\ MaySyscall(t)
    /\ Issued(t)
    /\ IF len > MAX_PAYLOAD_SIZE
       THEN \* syscall layer: message.payload_len > MAX_PAYLOAD_SIZE
            /\ Return(t, Outcome("send", "PayloadTooLarge", None, NoTag,
                                 Some(to), len > MAX_PAYLOAD_SIZE, None,
                                 NoTag, NoTag))
            /\ UNCHANGED <<send_to, send_message>>
       ELSE IF Len(SliceTo(buf, len)) > MAX_PAYLOAD_SIZE
       THEN \* message.rs: payload.len() > Message::MAX_PAYLOAD_SIZE
            /\ Return(t, Outcome("send", "PayloadTooLarge", None, NoTag,
                                 Some(to), len > MAX_PAYLOAD_SIZE, None,
                                 NoTag, NoTag))
            /\ UNCHANGED <<send_to, send_message>>
       ELSE IF ~exists(to)
       THEN \* !future::task::exists(to)
            /\ Return(t, Outcome("send", "TaskDoesNotExist", None, NoTag,
                                 Some(to), len > MAX_PAYLOAD_SIZE, None,
                                 NoTag, NoTag))
            /\ UNCHANGED <<send_to, send_message>>
       ELSE /\ pc' = [pc EXCEPT ![t] = "send1"]
            /\ send_to' = [send_to EXCEPT ![t] = Some(to)]
            /\ send_message' = [send_message EXCEPT ![t] =
                  Some(KernelMessage(t, to, kind, SliceTo(buf, len),
                                     <<t, nsys[t] + 1>>, NoTag))]
            /\ result' = [result EXCEPT ![t] =
                  Outcome("send", "Pending", None, <<t, nsys[t] + 1>>,
                          Some(to), FALSE, None, NoTag, NoTag)]
    /\ UNCHANGED <<execVars, queueVars, slotVars, lifeVars, panicked,
                   last_received, replies_for>>
    /\ UNCHANGED <<memVars, laterVars>>

\* the outcome of the send in progress of task t
SendOutcome(t, err, value, re, during) ==
    Outcome("send", err, value, result[t].tag, send_to[t], FALSE, None, re,
            during)

\* ipc::message::send, one iteration of the first loop (lines 149-200)
Send1(t) ==
    /\ Running(t)
    /\ pc[t] = "send1"
    /\ LET to == TheOne(send_to[t]) IN
       IF to \notin alive
       THEN \* Err(SendError::TaskDestroyed), line 168
            /\ Return(t, SendOutcome(t, "TaskDestroyed", None, NoTag, NoTag))
            /\ send_message' = [send_message EXCEPT ![t] = None]
            /\ send_to' = [send_to EXCEPT ![t] = None]
            /\ UNCHANGED <<execVars, queueVars, slotVars, panicked>>
       ELSE IF ipc_waiting_state[to].st = "WaitingForMessage"
       THEN \* lines 184-198: deliver the message, wake one receiver
            /\ ipc_message' = [ipc_message EXCEPT ![to] = send_message[t]]
            /\ ipc_receive_queue' = [ipc_receive_queue EXCEPT ![to] =
                  IF @ = <<>> THEN @ ELSE Tail(@)]
            /\ ready_ids' = ready_ids \o
                  (IF ipc_receive_queue[to] = <<>> THEN <<>>
                   ELSE <<Head(ipc_receive_queue[to])>>)
            /\ panicked' = (ipc_receive_queue[to] # <<>>
                            /\ WakeOverflow(<<Head(ipc_receive_queue[to])>>))
            /\ pc' = [pc EXCEPT ![t] = "send2"]
            /\ send_message' = [send_message EXCEPT ![t] = None]
            /\ UNCHANGED <<tasks, current, ready_queue, ipc_waiting_state,
                           ipc_reply, ipc_reply_queue, ipc_send_queue, result,
                           send_to>>
       ELSE \* lines 172-182: wait on the receiver's send queue
            /\ ipc_waiting_state' =
                  [ipc_waiting_state EXCEPT ![t] = StWaitingForSend]
            /\ ipc_send_queue' = [ipc_send_queue EXCEPT ![to] = Append(@, t)]
            /\ IF to \in poisoned_send
               THEN \* WaitFuture::poll returns Ready at once
                    UNCHANGED <<tasks, current, pc>>
               ELSE /\ pc' = [pc EXCEPT ![t] = "send_wait"]
                    /\ Suspend(t)
            /\ UNCHANGED <<ready_ids, ready_queue, ipc_message, ipc_reply,
                           ipc_receive_queue, ipc_reply_queue, send_message,
                           send_to, result, panicked>>
    /\ UNCHANGED <<lifeVars, histVars>>
    /\ UNCHANGED <<memVars, laterVars>>

\* a send that never looks into its reply slot
ReplyAvailable_never(t) == FALSE

\* current_local_set.ipc_reply.lock().take() yields Some (message.rs line 206)
ReplyAvailable(t) == ipc_reply[t] # None

\* ipc::message::send, one iteration of the second loop (lines 204-241),
\* and on a reply the rest of syscall::ipc::send (lines 173-197)
Send2(t) ==
    /\ Running(t)
    /\ pc[t] = "send2"
    /\ LET to == TheOne(send_to[t]) IN
       IF ReplyAvailable(t)
       THEN \* a reply has been received: take it and return it
            /\ ipc_reply' = [ipc_reply EXCEPT ![t] = None]
            /\ ipc_message' = ipc_message
            /\ Return(t, SendOutcome(t, "Ok",
                                     Some(UserReply(TheOne(ipc_reply[t]))),
                                     TheOne(ipc_reply[t]).tag,
                                     TheOne(ipc_reply[t]).during))
            /\ send_to' = [send_to EXCEPT ![t] = None]
            /\ UNCHANGED <<execVars, queueVars, ipc_waiting_state>>
       ELSE IF ~exists(to)
       THEN \* !future::task::exists(to): Err(SendError::TaskDestroyed)
            /\ Return(t, SendOutcome(t, "TaskDestroyed", None, NoTag, NoTag))
            /\ send_to' = [send_to EXCEPT ![t] = None]
            /\ UNCHANGED <<execVars, queueVars, slotVars>>
       ELSE \* no reply yet: WaitingForReply(to), wait on to's reply queue
            /\ ipc_waiting_state' =
                  [ipc_waiting_state EXCEPT ![t] = StWaitingForReply(to)]
            /\ ipc_reply_queue' = [ipc_reply_queue EXCEPT ![to] = Append(@, t)]
            /\ IF to \in poisoned_reply
               THEN UNCHANGED <<tasks, current, pc>>
               ELSE /\ pc' = [pc EXCEPT ![t] = "reply_wait"]
                    /\ Suspend(t)
            /\ UNCHANGED <<ready_ids, ready_queue, ipc_message, ipc_reply,
                           ipc_receive_queue, ipc_send_queue, result, send_to>>
    /\ UNCHANGED <<lifeVars, send_message, panicked, histVars>>
    /\ UNCHANGED <<memVars, laterVars>>


\* ------------------------------------------------------------- receive
\* syscall::ipc::receive (lines 215-220) entering ipc::message::receive
SysReceive(t) ==
    /\ MaySyscall(t)
    /\ Issued(t)
    /\ pc' = [pc EXCEPT ![t] = "recv"]
    /\ result' = [result EXCEPT ![t] =
          Outcome("receive", "Pending", None, NoTag, None, FALSE, None, NoTag,
                  NoTag)]
    /\ UNCHANGED <<execVars, queueVars, slotVars, lifeVars, send_to,
                   send_message, panicked, last_received, replies_for>>
    /\ UNCHANGED <<memVars, laterVars>>

\* ipc::message::receive, one iteration of its loop (lines 252-273), and on
\* a message the rest of syscall::ipc::receive (lines 222-249)
Recv(t) ==
    /\ Running(t)
    /\ pc[t] = "recv"
    /\ IF ipc_message[t] # None
       THEN \* a message is available: take it and return it
            LET m == TheOne(ipc_message[t]) IN
            /\ ipc_message' = [ipc_message EXCEPT ![t] = None]
            /\ Return(t, Outcome("receive", "Ok", Some(UserMessage(m)), m.tag,
                                 Some(m.sender), FALSE,
                                 IF m.sender \in alive
                                 THEN Some(ipc_waiting_state[m.sender])
                                 ELSE None,
                                 NoTag, NoTag))
            /\ last_received' = [last_received EXCEPT ![t][m.sender] = m.tag]
            /\ UNCHANGED <<execVars, queueVars, ipc_waiting_state, ipc_reply,
                           panicked>>
       ELSE \* lines 267-272: WaitingForMessage, wake the senders, wait.
            \* The receive queue is never poisoned.
            /\ ipc_waiting_state' =
                  [ipc_waiting_state EXCEPT ![t] = StWaitingForMessage]
            /\ ready_ids' = ready_ids \o ipc_send_queue[t]
            /\ panicked' = WakeOverflow(ipc_send_queue[t])
            /\ ipc_send_queue' = [ipc_send_queue EXCEPT ![t] = <<>>]
            /\ ipc_receive_queue' =
                  [ipc_receive_queue EXCEPT ![t] = Append(@, t)]
            /\ pc' = [pc EXCEPT ![t] = "recv_wait"]
            /\ Suspend(t)
            /\ UNCHANGED <<ready_queue, ipc_message, ipc_reply,
                           ipc_reply_queue, result, last_received>>
    /\ UNCHANGED <<lifeVars, send_to, send_message, budget, nsys, replies_for>>
    /\ UNCHANGED <<memVars, laterVars>>

\* --------------------------------------------------------------- reply
ReplyOutcome(to, len, err) ==
    Outcome("reply", err, None, NoTag, Some(to), len > MAX_PAYLOAD_SIZE, None,
            NoTag, NoTag)

\* a match that does not compare expected_from with the replier
ReplyCheck_any_sender(state, from) ==
    IF state.st = "WaitingForReply" THEN "Ok" ELSE "NotWaitingForReply"

\* ipc::message::reply, the match on the waiting state of `to` (lines 317-326)
ReplyCheck(state, from) ==
    IF state.st = "WaitingForReply"
    THEN IF state.from # Some(from) THEN "UnexpectedSender" ELSE "Ok"
    ELSE "NotWaitingForReply"

\* the tag of the send that task `to` is executing, if it is executing one
SendInProgress(to) ==
    IF to \in alive /\ result[to].op = "send" /\ result[to].err = "Pending"
    THEN result[to].tag
    ELSE NoTag

\* syscall::ipc::reply (lines 265-284) and ipc::message::reply (lines
\* 285-343).  The syscall layer slices reply.payload[..reply.payload_len]
\* without validating payload_len: an out-of-range slice panics.
SysReply(t, to, status, len, buf) ==
    /\ MaySyscall(t)
    /\ Issued(t)
    /\ IF ~SliceOk(len)
       THEN /\ panicked' = TRUE
            /\ result' = [result EXCEPT ![t] = ReplyOutcome(to, len, "Panic")]
            /\ UNCHANGED <<ready_ids, ipc_reply, ipc_reply_queue, pc,
                           replies_for>>
       ELSE LET payload == SliceTo(buf, len)
                re == last_received[t][to]
                message == KernelMessage(t, to, status, payload, re,
                                         SendInProgress(to))
            IN
            IF Len(payload) > MAX_PAYLOAD_SIZE
            THEN /\ Return(t, ReplyOutcome(to, len, "PayloadTooLarge"))
                 /\ UNCHANGED <<ready_ids, ipc_reply, ipc_reply_queue,
                                panicked, replies_for>>
            ELSE IF ~exists(to)
            THEN /\ Return(t, ReplyOutcome(to, len, "TaskDoesNotExist"))
                 /\ UNCHANGED <<ready_ids, ipc_reply, ipc_reply_queue,
                                panicked, replies_for>>
            ELSE IF ReplyCheck(ipc_waiting_state[to], t) # "Ok"
            THEN /\ Return(t, ReplyOutcome(to, len,
                                           ReplyCheck(ipc_waiting_state[to], t)))
                 /\ UNCHANGED <<ready_ids, ipc_reply, ipc_reply_queue,
                                panicked, replies_for>>
            ELSE \* deliver the reply, wake all on our own reply queue
                 /\ ipc_reply' = [ipc_reply EXCEPT ![to] = Some(message)]
                 /\ replies_for' = replies_for \cup
                       {<<re, status, payload, nsys[t] + 1>>}
                 /\ ready_ids' = ready_ids \o ipc_reply_queue[t]
                 /\ panicked' = WakeOverflow(ipc_reply_queue[t])
                 /\ ipc_reply_queue' = [ipc_reply_queue EXCEPT ![t] = <<>>]
                 /\ Return(t, ReplyOutcome(to, len, "Ok"))
    /\ UNCHANGED <<tasks, current, ready_queue, ipc_waiting_state, ipc_message,
                   ipc_receive_queue, ipc_send_queue, lifeVars, send_to,
                   send_message, last_received>>
    /\ UNCHANGED <<memVars, laterVars>>

\* ---------------------------------------------------------- yield, exit
\* Resume::Yield (the TaskYield syscall or the timer interrupt): the thread
\* loop awaits yield_once, whose first poll wakes its own waker and returns
\* Pending.
Yield(t) ==
    /\ MaySyscall(t)
    /\ Issued(t)
    /\ ready_ids' = Append(ready_ids, t)
    /\ panicked' = WakeOverflow(<<t>>)
    /\ pc' = [pc EXCEPT ![t] = "yield_wait"]
    /\ Suspend(t)
    /\ UNCHANGED <<ready_queue, queueVars, slotVars, lifeVars, send_to,
                   send_message, result, last_received, replies_for>>
    /\ UNCHANGED <<memVars, laterVars>>

\* Resume::Terminate or Resume::Fault: the thread loop returns, the poll is
\* Ready and run_once drops the task.  Task::drop removes the LocalDataSet
\* from TASK_LOCAL_DATA_MAP; LocalDataSet::drop poisons the reply queue and
\* the send queue and wakes every waiter of both.
Exit(t) ==
    /\ InUser(t)
    /\ pc' = [pc EXCEPT ![t] = "done"]
    /\ current' = None
    /\ alive' = alive \ {t}
    /\ poisoned_reply' = poisoned_reply \cup {t}
    /\ poisoned_send' = poisoned_send \cup {t}
    /\ ready_ids' = ready_ids \o DropWoken(t)
    /\ panicked' = WakeOverflow(DropWoken(t))
    /\ ipc_reply_queue' = [ipc_reply_queue EXCEPT ![t] = <<>>]
    /\ ipc_send_queue' = [ipc_send_queue EXCEPT ![t] = <<>>]
    /\ ipc_receive_queue' = [ipc_receive_queue EXCEPT ![t] = <<>>]
    /\ ipc_message' = [ipc_message EXCEPT ![t] = None]
    /\ ipc_reply' = [ipc_reply EXCEPT ![t] = None]
    /\ ipc_waiting_state' = [ipc_waiting_state EXCEPT ![t] = StNone]
    /\ result' = [result EXCEPT ![t] = NoResult]
    /\ UNCHANGED <<tasks, ready_queue, send_to, send_message, histVars>>
    /\ UNCHANGED <<memVars, laterVars>>

\* =========================================================== memory
\* The physical memory manager (kernel/src/pmm.rs) and the SV39 page-table
\* engine (kernel/src/arch/riscv64/mmu.rs).  RAM is NFrames pages starting
\* at RAM_START; the firmware owns the first FirmwareFrames of them and the
\* kernel image, with the allocator's own bitmap, the next KernelFrames.

\* ------------------------------------------------------- physical frames
FrameIds == 0 .. (NFrames - 1)
RAM_START == RamStartPage * PAGE_SIZE
RAM_END == RAM_START + NFrames * PAGE_SIZE

\* the smallest element of a non-empty set of numbers
Lowest(S) == CHOOSE x \in S : \A y \in S : x <= y

\* Align::page_align_up for usize
page_align_up(addr) == ((addr + PAGE_SIZE - 1) \div PAGE_SIZE) * PAGE_SIZE

\* an alignment test that lets every address through
is_page_aligned_any(addr) == TRUE

is_page_aligned(addr) == addr % PAGE_SIZE = 0

index2phys(index) == RAM_START + index * PAGE_SIZE

\* phys2index asserts that the address lies in RAM_START ..= RAM_END
phys2index_ok(addr) == addr >= RAM_START /\ addr <= RAM_END

phys2index(addr) == (addr - RAM_START) \div PAGE_SIZE

\* UsableMemory::into_free_regions: the regions left to the allocator.  The
\* region that holds the kernel starts at the end of the kernel image; the
\* device tree may describe RAM as one region or as two with a gap.
Region(first, frames) == [start |-> index2phys(first), length |-> frames * PAGE_SIZE]

KernelEnd == FirmwareFrames + KernelFrames

WholeMap == {Region(KernelEnd, NFrames - KernelEnd)}

SplitMap == {Region(KernelEnd, 1), Region(KernelEnd + 2, NFrames - KernelEnd - 2)}

MemoryMaps == {WholeMap, SplitMap}

\* the window setup reserves for the firmware, byte by byte
FirmwareWindow == RAM_START .. (RAM_START + FirmwareFrames * PAGE_SIZE - 1)

\* pmm::setup: every frame starts as KERNEL, the frames of the free regions
\* become FREE and the frames of the firmware window FIRMWARE.
setup(regions) ==
    LET free == UNION {phys2index(page_align_up(r.start)) ..
                         (phys2index(page_align_up(r.start + r.length)) - 1) :
                       r \in regions}
        firmware == {phys2index(addr) : addr \in FirmwareWindow}
        listed == [f \in FrameIds |->
                     IF f \in free THEN ({"KERNEL"} \ {"KERNEL"}) \cup {"FREE"}
                     ELSE {"KERNEL"}]
    IN [f \in FrameIds |->
          IF f \in firmware THEN (listed[f] \ {"KERNEL"}) \cup {"FIRMWARE"}
          ELSE listed[f]]

\* a page of zero bytes read as a page table: every entry is Entry::missing
MissingEntry == [present |-> FALSE, rights |-> {}, global |-> FALSE, addr |-> 0]

ZeroPage == [i \in 0 .. (TableEntries - 1) |-> MissingEntry]

\* bitmap.windows(count).position(all FREE): the first run of count frames
\* that are all FREE, if there is one (count >= 1)
FirstFit_highest(bm, count) ==
    LET runs == {s \in 0 .. (NFrames - count) :
                   \A f \in s .. (s + count - 1) : "FREE" \in bm[f]}
    IN IF runs = {} THEN None ELSE Some(CHOOSE s \in runs : \A r \in runs : r <= s)

FirstFit(bm, count) ==
    LET runs == {s \in 0 .. (NFrames - count) :
                   \A f \in s .. (s + count - 1) : "FREE" \in bm[f]}
    IN IF runs = {} THEN None ELSE Some(Lowest(runs))

\* loops that leave FREE set, or that stop after the first frame
Taken_keeps_free(bm, start, count, flags) ==
    [f \in FrameIds |->
       IF f \in start .. (start + count - 1)
       THEN IF "KERNEL" \in flags THEN bm[f] \cup {"KERNEL"} ELSE bm[f] \ {"FREE"}
       ELSE bm[f]]

Taken_first_only(bm, start, count, flags) ==
    [f \in FrameIds |->
       IF f = start
       THEN IF "KERNEL" \in flags
            THEN (bm[f] \ {"FREE"}) \cup {"KERNEL"}
            ELSE bm[f] \ {"FREE"}
       ELSE bm[f]]

\* the loop of allocate_range over start .. start + count
Taken(bm, start, count, flags) ==
    [f \in FrameIds |->
       IF f \in start .. (start + count - 1)
       THEN IF "KERNEL" \in flags
            THEN (bm[f] \ {"FREE"}) \cup {"KERNEL"}
            ELSE bm[f] \ {"FREE"}
       ELSE bm[f]]

\* write_bytes(ptr, 0, PAGE_SIZE * count) when ZEROED is requested
Zeroed(m, start, count, flags) ==
    [f \in FrameIds |->
       IF "ZEROED" \in flags /\ f \in start .. (start + count - 1)
       THEN ZeroPage ELSE m[f]]

\* the loop of deallocate_range over start .. stop
Released_keeps_kernel(bm, start, stop) ==
    [f \in FrameIds |->
       IF f \in start .. (stop - 1) THEN bm[f] \cup {"FREE"} ELSE bm[f]]

Released(bm, start, stop) ==
    [f \in FrameIds |->
       IF f \in start .. (stop - 1)
       THEN (bm[f] \ {"KERNEL"}) \cup {"FREE"}
       ELSE bm[f]]

\* what last_call keeps of the call before it, and of the one before that
Slim(call) ==
    [field \in DOMAIN call \ {"prev", "n", "before", "left", "freed"} |-> call[field]]

Brief(call) ==
    [field \in DOMAIN call \ {"n"} |->
       IF field = "prev" THEN Slim(call.prev) ELSE call[field]]

NoCall == [op |-> "none", count |-> 0, flags |-> {}, base |-> None, ret |-> None,
           panic |-> FALSE, before |-> <<>>, n |-> 0, prev |-> [op |-> "none"]]

PmmCall(op, count, flags, base, ret, panic) ==
    [op |-> op, count |-> count, flags |-> flags, base |-> base, ret |-> ret,
     panic |-> panic, before |-> bitmap, prev |-> Brief(last_call),
     n |-> last_call.n + 1]

\* pmm::allocate_range.  slice::windows panics when count is zero.
allocate_range(count, flags) ==
    /\ ~panicked
    /\ IF count = 0
       THEN /\ panicked' = TRUE
            /\ last_call' = PmmCall("allocate_range", count, flags, None, None, TRUE)
            /\ UNCHANGED <<bitmap, mem, held>>
       ELSE LET found == FirstFit(bitmap, count)
            IN IF found = None
               THEN /\ last_call' = PmmCall("allocate_range", count, flags,
                                            None, None, FALSE)
                    /\ UNCHANGED <<bitmap, mem, held, panicked>>
               ELSE LET start == TheOne(found)
                    IN /\ bitmap' = Taken(bitmap, start, count, flags)
                       /\ mem' = Zeroed(mem, start, count, flags)
                       /\ held' = held \cup (start .. (start + count - 1))
                       /\ last_call' = PmmCall("allocate_range", count, flags, None,
                                               Some(index2phys(start)), FALSE)
                       /\ UNCHANGED panicked
    /\ UNCHANGED <<laterVars, ipcVars, roots, active, stray>>

\* pmm::deallocate_range.  The assertions on the base and on the range run
\* before the loop; a frame that is FREE stops the loop with a panic after
\* the frames before it were released.
deallocate_range(base, count) ==
    /\ ~panicked
    /\ LET start == phys2index(base)
           end == start + count
       IN IF ~phys2index_ok(base) \/ ~is_page_aligned(base) \/ end > NFrames
          THEN /\ panicked' = TRUE
               /\ last_call' = PmmCall("deallocate_range", count, {}, Some(base),
                                       None, TRUE)
               /\ UNCHANGED <<bitmap, held, stray>>
          ELSE LET free == {f \in start .. (end - 1) : "FREE" \in bitmap[f]}
                   stop == IF free = {} THEN end ELSE Lowest(free)
               IN /\ bitmap' = Released(bitmap, start, stop)
                  /\ panicked' = (free # {})
                  /\ held' = held \ (start .. (stop - 1))
                  /\ stray' = (stray \/ ~((start .. (end - 1)) \subseteq held))
                  /\ last_call' = PmmCall("deallocate_range", count, {}, Some(base),
                                          None, free # {})
    /\ UNCHANGED <<laterVars, ipcVars, mem, roots, active>>

\* the physical addresses a caller may hand to deallocate_range: the frames
\* of RAM, the address RAM_END, an address inside a frame, one below RAM
Bases ==
    {index2phys(f) : f \in 0 .. NFrames} \cup {index2phys(KernelEnd) + 1, RAM_START - PAGE_SIZE}

Counts == 0 .. MaxCount

AllocationFlags == SUBSET {"KERNEL", "ZEROED"}

\* ---------------------------------------------------------- page tables
\* A table has TableEntries entries; the lower half of a root table is the
\* user space and the upper half the kernel space.  An entry is the 64-bit
\* word of mmu::Entry read as its fields: PRESENT, the rights R W X U, GLOBAL
\* and the physical address.
EntryIds == 0 .. (TableEntries - 1)
UserHalf == 0 .. ((TableEntries \div 2) - 1)
KernelHalf == (TableEntries \div 2) .. (TableEntries - 1)

\* the bytes one entry of a root table spans (1 GiB in SV39)
GIB == TableEntries * TableEntries * PAGE_SIZE

\* the kernel image is loaded at the start of RAM
KERNEL_PHYSICAL_BASE == RAM_START

\* the virtual address with the three given indices, highest level first
Va(i2, i1, i0) == ((i2 * TableEntries + i1) * TableEntries + i0) * PAGE_SIZE

\* Virtual::vpn_sv39: the indices of the walk, root table first
vpn_sv39(virt) ==
    <<(virt \div GIB) % TableEntries,
      (virt \div (TableEntries * PAGE_SIZE)) % TableEntries,
      (virt \div PAGE_SIZE) % TableEntries>>

\* Entry::set_address keeps the flag bits and stores the page of the frame
set_address(entry, addr) == [entry EXCEPT !.addr = (addr \div PAGE_SIZE) * PAGE_SIZE]

set_present(entry, present) == [entry EXCEPT !.present = present]

\* Entry::set_rights sets and clears each of U R W X
set_rights(entry, rights) == [entry EXCEPT !.rights = rights]

\* Entry::set_flags sets or clears GLOBAL
set_flags(entry, flags) == [entry EXCEPT !.global = "GLOBAL" \in flags]

\* Entry::is_leaf: readable | writable | executable
is_leaf(entry) == entry.rights \cap {"R", "W", "X"} # {}

\* the frame of RAM an address lies in (translate_physical is a fixed shift)
frame_of(addr) == (addr - RAM_START) \div PAGE_SIZE

\* Entry::next_table_mut: the table a present entry that is no leaf points to
next_table_mut(entry) ==
    IF is_leaf(entry) \/ ~entry.present THEN None ELSE Some(frame_of(entry.addr))

\* mmu::setup: the kernel table maps physical memory with 1 GiB leaves in its
\* kernel half, the last of them on the kernel image
KERNEL_TABLE ==
    [i \in EntryIds |->
       IF i \in UserHalf THEN MissingEntry
       ELSE [present |-> TRUE, rights |-> {"R", "W", "X"}, global |-> TRUE,
             addr |-> IF i = TableEntries - 1 THEN KERNEL_PHYSICAL_BASE
                      ELSE (i - (TableEntries \div 2)) * GIB]]

\* RootTable::copy_kernel_space on a table: the user entries are cleared and
\* the kernel entries copied from KERNEL_TABLE
copy_kernel_space_clears_all(table) ==
    [i \in EntryIds |-> MissingEntry]

copy_kernel_space(table) ==
    [i \in EntryIds |-> IF i \in UserHalf THEN MissingEntry ELSE KERNEL_TABLE[i]]

\* where a table lives: in a RootTable or in a frame of RAM
InRoot(r) == <<"root", r>>
InKernel == <<"kernel", 0>>
InFrame(f) == <<"frame", f>>

\* the entry i of the table at loc, in the state st of a call in progress
Read(st, loc, i) ==
    IF loc[1] = "root" THEN st.roots[loc[2]][i] ELSE st.mem[loc[2]][i]

Write(st, loc, i, entry) ==
    IF loc[1] = "root"
    THEN [st EXCEPT !.roots[loc[2]][i] = entry]
    ELSE [st EXCEPT !.mem[loc[2]][i] = entry]

\* the state a call of the MMU starts from
Entering(loc) ==
    [roots |-> roots, mem |-> mem, bitmap |-> bitmap, loc |-> loc,
     ret |-> "walking", frame |-> None, panic |-> FALSE, freed |-> <<>>,
     active |-> active]

\* one iteration of the loop of map on the entry i of the table at st.loc
MapLevel(st, i) ==
    LET entry == Read(st, st.loc, i)
    IN IF is_leaf(entry) THEN [st EXCEPT !.ret = "AlreadyMapped"]
       ELSE IF ~entry.present
       THEN LET found == FirstFit(st.bitmap, 1)
            IN IF found = None THEN [st EXCEPT !.ret = "OutOfMemory"]
               ELSE LET f == TheOne(found)
                        got == [st EXCEPT
                                  !.bitmap = Taken(@, f, 1, {"KERNEL", "ZEROED"}),
                                  !.mem = Zeroed(@, f, 1, {"KERNEL", "ZEROED"})]
                        installed == set_present(set_address(entry, index2phys(f)), TRUE)
                    IN [Write(got, st.loc, i, installed) EXCEPT !.loc = InFrame(f)]
       ELSE [st EXCEPT !.loc = InFrame(TheOne(next_table_mut(entry)))]

\* the end of map: the level-0 entry
MapLeaf_overwrites(st, i, frame, rights, flags) ==
    Write([st EXCEPT !.ret = "Ok"], st.loc, i,
          set_present(set_flags(set_rights(set_address(Read(st, st.loc, i), frame),
                                           rights), flags), TRUE))

MapLeaf(st, i, frame, rights, flags) ==
    LET entry == Read(st, st.loc, i)
    IN IF entry.present THEN [st EXCEPT !.ret = "AlreadyMapped"]
       ELSE Write([st EXCEPT !.ret = "Ok"], st.loc, i,
                  set_present(set_flags(set_rights(set_address(entry, frame),
                                                   rights), flags), TRUE))

\* mmu::map as a function of the state it starts from
Mapped(r, virt, frame, rights, flags) ==
    LET vpn == vpn_sv39(virt)
        l2 == MapLevel(Entering(InRoot(r)), vpn[1])
        l1 == IF l2.ret = "walking" THEN MapLevel(l2, vpn[2]) ELSE l2
    IN IF l1.ret = "walking" THEN MapLeaf(l1, vpn[3], frame, rights, flags) ELSE l1

\* one iteration of the loop of unmap
UnmapLevel(st, i) ==
    LET entry == Read(st, st.loc, i)
    IN IF is_leaf(entry) THEN [st EXCEPT !.ret = "UnsupportedFrameSize"]
       ELSE IF ~entry.present THEN [st EXCEPT !.ret = "NotMapped"]
       ELSE [st EXCEPT !.loc = InFrame(TheOne(next_table_mut(entry)))]

\* the end of unmap: assert!(entry.is_leaf()) comes before the test of the
\* PRESENT bit
UnmapLeaf_keeps_entry(st, i) ==
    LET entry == Read(st, st.loc, i)
    IN IF ~is_leaf(entry) THEN [st EXCEPT !.ret = "panic", !.panic = TRUE]
       ELSE IF ~entry.present THEN [st EXCEPT !.ret = "NotMapped"]
       ELSE [st EXCEPT !.ret = "Ok", !.frame = Some(entry.addr)]

UnmapLeaf(st, i) ==
    LET entry == Read(st, st.loc, i)
    IN IF ~is_leaf(entry) THEN [st EXCEPT !.ret = "panic", !.panic = TRUE]
       ELSE IF ~entry.present THEN [st EXCEPT !.ret = "NotMapped"]
       ELSE Write([st EXCEPT !.ret = "Ok", !.frame = Some(entry.addr)],
                  st.loc, i, MissingEntry)

\* mmu::unmap as a function of the state it starts from
Unmapped(r, virt) ==
    LET vpn == vpn_sv39(virt)
        l2 == UnmapLevel(Entering(InRoot(r)), vpn[1])
        l1 == IF l2.ret = "walking" THEN UnmapLevel(l2, vpn[2]) ELSE l2
    IN IF l1.ret = "walking" THEN UnmapLeaf(l1, vpn[3]) ELSE l1

\* mm::phys::deallocate_frame called by unmap_all, with its assertions
Deallocated(st, addr) ==
    LET f == phys2index(addr)
    IN IF \/ ~phys2index_ok(addr)
          \/ ~is_page_aligned(addr)
          \/ f + 1 > NFrames
          \/ "FREE" \in st.bitmap[f]
       THEN [st EXCEPT !.panic = TRUE]
       ELSE [st EXCEPT !.bitmap = Released(@, f, f + 1),
                       !.freed = Append(@, [frame |-> f, active |-> st.active])]

\* mmu::unmap_all on the entries i .. last of the table at loc.  The function
\* recurses into whatever a present entry without R, W and X points to; depth
\* counts the calls on the stack.
RECURSIVE unmap_all(_, _, _, _, _)
unmap_all(st, loc, i, last, depth) ==
    IF st.panic \/ i > last THEN st
    ELSE LET entry == Read(st, loc, i)
             table == next_table_mut(entry)
         IN IF table # None
            THEN IF depth >= MaxDepth \/ TheOne(table) \notin FrameIds
                 THEN [st EXCEPT !.panic = TRUE]
                 ELSE LET inner == unmap_all(st, InFrame(TheOne(table)), 0,
                                             TableEntries - 1, depth + 1)
                          addr == Read(inner, loc, i).addr
                      IN IF inner.panic THEN inner
                         ELSE unmap_all(Deallocated(Write(inner, loc, i, MissingEntry),
                                                    addr),
                                        loc, i + 1, last, depth)
            ELSE IF entry.present
            THEN unmap_all(Deallocated(Write(st, loc, i, MissingEntry), entry.addr),
                           loc, i + 1, last, depth)
            ELSE unmap_all(st, loc, i + 1, last, depth)

\* mmu::use_kernel_table: the kernel table becomes the active one
use_kernel_table(st) == [st EXCEPT !.active = InKernel]

\* RootTable::drop: use_kernel_table, then unmap_all(self.user_space_mut())
Dropped(r) ==
    unmap_all(use_kernel_table(Entering(InRoot(r))), InRoot(r), 0,
              (TableEntries \div 2) - 1, 0)

\* what last_call records of a call of the MMU
MmuCall(op, r, virt, frame, rights, flags, st) ==
    [op |-> op, root |-> r, va |-> virt, frame |-> frame, rights |-> rights,
     flags |-> flags, ret |-> st.ret, got |-> st.frame, panic |-> st.panic,
     freed |-> st.freed, left |-> IF r \in DOMAIN st.roots THEN st.roots[r] ELSE <<>>,
     fresh |-> r \in DOMAIN roots /\ \A i \in UserHalf : roots[r][i] = MissingEntry,
     before |-> [roots |-> roots, mem |-> mem, bitmap |-> bitmap],
     prev |-> Brief(last_call), n |-> last_call.n + 1]

\* the root tables the threads of the system own
RootIds == 1 .. MaxRoots

\* a thread is created: RootTable::empty, then copy_kernel_space
create(r) ==
    /\ ~panicked
    /\ r \notin DOMAIN roots
    /\ roots' = [x \in DOMAIN roots \cup {r} |->
                   IF x = r THEN copy_kernel_space(ZeroPage) ELSE roots[x]]
    /\ last_call' = MmuCall("create", r, 0, 0, {}, {}, Entering(InRoot(r)))
    /\ UNCHANGED <<laterVars, ipcVars, panicked, bitmap, mem, active, held, stray>>

\* RootTable::set_current: the thread that owns r is about to run
set_current(r) ==
    /\ ~panicked
    /\ r \in DOMAIN roots
    /\ active # InRoot(r)
    /\ active' = InRoot(r)
    /\ UNCHANGED <<laterVars, ipcVars, panicked, bitmap, mem, roots, held, stray, last_call>>

\* mmu::map
map(r, virt, frame, rights, flags) ==
    /\ ~panicked
    /\ r \in DOMAIN roots
    /\ LET st == Mapped(r, virt, frame, rights, flags)
       IN /\ roots' = st.roots
          /\ mem' = st.mem
          /\ bitmap' = st.bitmap
          /\ last_call' = MmuCall("map", r, virt, frame, rights, flags, st)
    /\ UNCHANGED <<laterVars, ipcVars, panicked, active, held, stray>>

\* mmu::unmap
unmap(r, virt) ==
    /\ ~panicked
    /\ r \in DOMAIN roots
    /\ LET st == Unmapped(r, virt)
       IN /\ roots' = st.roots
          /\ mem' = st.mem
          /\ panicked' = st.panic
          /\ last_call' = MmuCall("unmap", r, virt, 0, {}, {}, st)
    /\ UNCHANGED <<laterVars, ipcVars, bitmap, active, held, stray>>

\* RootTable::drop: use_kernel_table, then unmap_all on the user half; the
\* table is gone afterwards
drop(r) ==
    /\ ~panicked
    /\ r \in DOMAIN roots
    /\ LET st == Dropped(r)
       IN /\ active' = st.active
          /\ roots' = [x \in DOMAIN roots \ {r} |-> st.roots[x]]
          /\ mem' = st.mem
          /\ bitmap' = st.bitmap
          /\ panicked' = st.panic
          /\ held' = held \ {st.freed[k].frame : k \in DOMAIN st.freed}
          /\ last_call' = MmuCall("drop", r, 0, 0, {}, {}, st)
    /\ UNCHANGED <<laterVars, ipcVars, stray>>

\* the frames the user half of root table r reaches in an SV39 walk: the
\* tables of level 1, the tables of level 0, the frames of the level-0 entries
Tables1(rt, m, r) ==
    {frame_of(rt[r][i].addr) : i \in {j \in UserHalf : next_table_mut(rt[r][j]) # None}}
        \cap FrameIds

Tables0(rt, m, r) ==
    UNION {{frame_of(m[t][i].addr) : i \in {j \in EntryIds : next_table_mut(m[t][j]) # None}} :
           t \in Tables1(rt, m, r)} \cap FrameIds

LeafFrames(rt, m, r) ==
    UNION {{frame_of(m[t][i].addr) : i \in {j \in EntryIds : m[t][j].present}} :
           t \in Tables0(rt, m, r)}

\* frames a caller may still release: held and in no live table
Unmapped_held == {f \in held : \A r \in DOMAIN roots : f \notin LeafFrames(roots, mem, r)}

\* the addresses, rights and flags callers pass: 0x1000 and its neighbour in
\* the same level-0 table, an address under another level-1 entry, one under
\* another root entry, and the first kernel address
MapVas == {Va(0, 0, 1), Va(0, 0, 2), Va(TableEntries \div 2, 0, 0)}
UnmapVas == MapVas \cup {Va(0, 1, 0), Va(1, 0, 0)}
MapRights == {{"R", "W", "X", "U"}, {"U"}}
MapFlags == {{}}

\* the state after boot with one thread created for each root table
MmuBoot ==
    /\ \E regions \in MemoryMaps : bitmap = setup(regions)
    /\ mem = [f \in FrameIds |-> ZeroPage]
    /\ roots = [r \in RootIds |-> copy_kernel_space(ZeroPage)]
    /\ active = InKernel
    /\ held = {}
    /\ stray = FALSE
    /\ last_call = NoCall

\* the state pmm::setup and mmu::setup leave: no root table but the kernel's
MemBoot(regions) ==
    /\ bitmap = setup(regions)
    /\ mem = [f \in FrameIds |-> ZeroPage]
    /\ roots = <<>>
    /\ active = InKernel
    /\ held = {}
    /\ stray = FALSE
    /\ last_call = NoCall

\* ========================================================== scheduling
\* The executor with the keys of its ready queue (kernel/src/future/
\* executor.rs), the virtual runtime of the tasks (kernel/src/future/task.rs)
\* and the thread loop with its quantum and the supervisor timer
\* (kernel/src/future/user.rs, kernel/src/arch/riscv64/timer.rs,
\* kernel/src/arch/riscv64/trap.rs).  Durations are in nanoseconds, the time
\* register counts ticks of internal_tick nanoseconds.

\* timer::internal_tick
internal_tick == TickNs

\* Duration::from_millis(config::THREAD_MAX_RUN_DURATION), on the scale of
\* the model
max_run_duration == MaxRunTicks * internal_tick

\* timer::since_boot: ticks * tick_duration
since_boot(ticks) == ticks * internal_tick

\* Duration::saturating_sub
saturating_sub(a, b) == IF a > b THEN a - b ELSE 0

\* u64::max
Larger(a, b) == IF a > b THEN a ELSE b

\* ------------------------------------------------------ the ready queue
\* Executor.ready_queue is a BTreeMap<u64, Identifier>: q.keys are its keys in
\* ascending order and q.ids[i] is the value of q.keys[i].
contains_key(q, key) == \E i \in DOMAIN q.keys : q.keys[i] = key

\* where key stands, or would stand, in the order of the keys
Rank(q, key) == 1 + Cardinality({i \in DOMAIN q.keys : q.keys[i] < key})

\* BTreeMap::insert: the value of an equal key is replaced
insert(q, key, id) ==
    IF contains_key(q, key)
    THEN [q EXCEPT !.ids[Rank(q, key)] = id]
    ELSE [keys |-> InsertAt(q.keys, key, Rank(q, key)),
          ids |-> InsertAt(q.ids, id, Rank(q, key))]

\* an insertion under the key the task brings
Unused_as_given(q, v) == v

\* while ready_queue.contains_key(&vruntime) { vruntime += 1; }
RECURSIVE Unused(_, _)
Unused(q, v) == IF contains_key(q, v) THEN Unused(q, v + 1) ELSE v

\* a drain that gives the task the lowest key of the queue
Clamped_to_lowest(v, lowest_vruntime) == lowest_vruntime

\* a drain that takes the virtual runtime of the task as it is
Clamped_not(v, lowest_vruntime) == v

\* task.vruntime().max(lowest_vruntime)
Clamped(v, lowest_vruntime) == Larger(v, lowest_vruntime)

\* process_ready_ids, the loop over ready_ids (lines 131-160): the queue and
\* the virtual runtimes it leaves.  Ids without a task in the map are skipped.
RECURSIVE Drained(_, _, _, _)
Drained(ids, q, vr, lowest_vruntime) ==
    IF ids = <<>> THEN [q |-> q, vr |-> vr]
    ELSE IF Head(ids) \in tasks
         THEN LET v == Unused(q, Clamped(vr[Head(ids)], lowest_vruntime))
              IN Drained(Tail(ids), insert(q, v, Head(ids)),
                         [vr EXCEPT ![Head(ids)] = v], lowest_vruntime)
         ELSE Drained(Tail(ids), q, vr, lowest_vruntime)

\* ready_queue.keys().next().copied().unwrap_or(0)
lowest(keys) == IF keys = <<>> THEN 0 ELSE keys[1]

\* what last_end holds before any poll is over
NoEnd == [id |-> None, how |-> "none", trap |-> "none", armed |-> 0,
          quiet |-> FALSE, runnable |-> {}, n |-> 0]

\* what last_exec holds when a poll begins: no trap yet; quiet says that the
\* thread has made no syscall in this poll
NoExec(id, quiet) ==
    [id |-> id, armed |-> 0, set |-> None, at |-> 0, before |-> 0, trap |-> "none",
     resume |-> "none", remaining |-> 0, quiet |-> quiet]

\* Executor::run_once up to the poll of the chosen task: process_ready_ids,
\* pop_first, tasks.remove, set_current_task_id, and the start of Task::poll.
run_once ==
    /\ ~panicked
    /\ current = None
    /\ last_run.n < MaxPolls
    /\ ready_ids # <<>> \/ ready_queue # <<>>
    /\ LET found == [keys |-> ready_keys, ids |-> ready_queue]
           after == Drained(ready_ids, found, vruntime, lowest(ready_keys))
           q == after.q
           polls == q.ids # <<>> /\ Head(q.ids) \in tasks
       IN /\ ready_ids' = <<>>
          /\ vruntime' = after.vr
          /\ ready_queue' = IF q.ids = <<>> THEN <<>> ELSE Tail(q.ids)
          /\ ready_keys' = IF q.keys = <<>> THEN <<>> ELSE Tail(q.keys)
          /\ tasks' = IF polls THEN tasks \ {Head(q.ids)} ELSE tasks
          /\ current' = IF polls THEN Some(Head(q.ids)) ELSE None
          /\ pc' = IF polls THEN [pc EXCEPT ![Head(q.ids)] = Resumed(@)] ELSE pc
          /\ poll_start' = IF polls THEN since_boot(time) ELSE poll_start
          /\ last_exec' = IF polls
                          THEN NoExec(Some(Head(q.ids)), pc[Head(q.ids)] # "recv_wait")
                          ELSE last_exec
          /\ last_run' = [n |-> last_run.n + 1,
                          woken |-> ready_ids,
                          tasks |-> tasks,
                          found |-> found,
                          vruntime |-> vruntime,
                          drained |-> q,
                          polled |-> IF polls THEN Some(Head(q.ids)) ELSE None,
                          after |-> last_end]
    /\ UNCHANGED <<queueVars, slotVars, lifeVars, send_to, send_message, result,
                   panicked, histVars, time, timer, remaining, trap_start,
                   last_end, exited>>
    /\ UNCHANGED <<memVars, otherVars>>

\* ------------------------------------------------------ the thread loop
\* the ids, other than t, that are runnable: in the ready queue or woken,
\* with a task in the map
Runnable(t, ids, queue, stored) ==
    {u \in stored \ {t} : \E i \in DOMAIN (ids \o queue) : (ids \o queue)[i] = u}

\* Task::poll, line 73: self.vruntime += elapsed
Polled(t, ticks) ==
    [vruntime EXCEPT ![t] = @ + saturating_sub(since_boot(ticks), poll_start)]

\* a timer that is always set a full quantum ahead
next_event_full(ticks, next) == ticks + (max_run_duration \div internal_tick)

\* timer::next_event(remaining): the tick the timer is set to
next_event(ticks, next) == ticks + (next \div internal_tick)

\* the traps the threads take whose handler does not await.  An external
\* interrupt is to the loop what a yield is, and any other interrupt what a
\* nop is: they are left to those two.
Traps == {"exception", "timer", "nop", "exit", "yield", "notify"}

Syscalls == {"nop", "exit", "yield", "notify", "wait"}

\* trap::handle_exception, trap::handle_interrupt and handle_syscall: the
\* Resume they give
Resume(trap) ==
    CASE trap = "exception" -> "Fault"
      [] trap = "timer" -> "Yield"
      [] trap = "external" -> "Yield"
      [] trap = "interrupt" -> "Continue"
      [] trap = "nop" -> "Continue"
      [] trap = "exit" -> "Terminate"
      [] trap = "yield" -> "Yield"
      [] trap = "notify" -> "Continue"
      [] trap = "wait" -> "Continue"

\* thread_loop, lines 50-53: if remaining.is_zero() { resume = Resume::Yield }
Overridden(resume, left) == IF left = 0 THEN "Yield" ELSE resume

\* the hart takes the timer interrupt when the time register has reached the
\* tick the timer is set to, and another trap only before that; the elapsed
\* time the loop measures around execute counts the way in and out of the
\* kernel as well, so it may reach the quantum on any trap
MayTrap(trap, armed, d) ==
    IF trap = "timer" THEN d = armed \div internal_tick
    ELSE armed \div internal_tick >= 1 /\ d <= armed \div internal_tick

\* the poll of task t ends: Pending puts the task back into the map, Ready
\* drops it (Task::drop, LocalDataSet::drop); run_once clears the current id
EndPoll(t, how, trap, armed, ticks, woken) ==
    /\ vruntime' = Polled(t, ticks)
    /\ current' = None
    /\ ready_ids' = ready_ids \o woken
    /\ panicked' = WakeOverflow(woken)
    /\ tasks' = IF how = "done" THEN tasks ELSE tasks \cup {t}
    /\ alive' = IF how = "done" THEN alive \ {t} ELSE alive
    /\ poisoned_reply' = IF how = "done" THEN poisoned_reply \cup {t} ELSE poisoned_reply
    /\ poisoned_send' = IF how = "done" THEN poisoned_send \cup {t} ELSE poisoned_send
    /\ last_end' = [id |-> Some(t), how |-> how, trap |-> trap, armed |-> armed,
                    quiet |-> last_exec.quiet /\ trap \notin Syscalls,
                    runnable |-> Runnable(t, ready_ids \o woken, ready_queue, tasks),
                    n |-> last_run.n]

\* a yield that wakes nobody
yield_once_asleep(t) == <<>>

\* YieldFuture::poll, first poll: context.waker().wake_by_ref(), the ids the
\* waker pushes
yield_once(t) == <<t>>

\* the end of an iteration of thread_loop (lines 64-76): match resume
Dispatch(t, resume, left, trap, armed, ticks, woken) ==
    CASE resume \in {"Terminate", "Fault"} ->
            /\ pc' = [pc EXCEPT ![t] = "done"]
            /\ remaining' = [remaining EXCEPT ![t] = left]
            /\ EndPoll(t, "done", trap, armed, ticks, woken \o DropWoken(t))
      [] resume = "Yield" ->
            /\ pc' = [pc EXCEPT ![t] = "yield_wait"]
            /\ remaining' = [remaining EXCEPT ![t] = max_run_duration]
            /\ EndPoll(t, "yield", trap, armed, ticks, woken \o yield_once(t))
      [] resume = "Continue" ->
            /\ pc' = pc
            /\ remaining' = [remaining EXCEPT ![t] = left]
            /\ ready_ids' = ready_ids \o woken
            /\ panicked' = WakeOverflow(woken)
            /\ UNCHANGED <<vruntime, current, tasks, alive, poisoned_reply,
                           poisoned_send, last_end>>

\* Queue::wake_one: the waker it pops, if there is one
wake_one(queue) == IF queue = <<>> THEN <<>> ELSE <<Head(queue)>>

\* One iteration of thread_loop whose trap handler does not await: the timer
\* is set, the thread runs for d ticks up to `trap`, the handler takes h
\* ticks.  A notify is a syscall that wakes one waiter of the queue of `to`,
\* as the send of a message does.
thread_loop(t, trap, to, d, h) ==
    /\ InUser(t)
    /\ time + d + h <= MaxTime
    /\ MayTrap(trap, remaining[t], d)
    /\ LET armed == remaining[t]
           left == saturating_sub(armed, since_boot(d))
           resume == Overridden(Resume(trap), left)
           spent == saturating_sub(left, since_boot(h))
           woken == IF trap = "notify" THEN wake_one(ipc_receive_queue[to]) ELSE <<>>
       IN /\ time' = time + d + h
          /\ timer' = IF trap = "timer" THEN None ELSE Some(next_event(time, armed))
          /\ ipc_receive_queue' =
                IF trap = "notify" /\ ipc_receive_queue[to] # <<>>
                THEN [ipc_receive_queue EXCEPT ![to] = Tail(@)]
                ELSE ipc_receive_queue
          /\ exited' = IF trap \in {"exit", "exception"} THEN exited \cup {t} ELSE exited
          /\ last_exec' = [id |-> Some(t), armed |-> armed,
                           set |-> Some(next_event(time, armed)), at |-> time,
                           before |-> remaining[t], trap |-> trap, resume |-> resume,
                           remaining |-> IF resume = "Yield" THEN max_run_duration
                                         ELSE spent,
                           quiet |-> last_exec.quiet /\ trap \notin Syscalls]
          /\ Dispatch(t, resume, spent, trap, armed, time + d + h, woken)
    /\ UNCHANGED <<ready_queue, ready_keys, ipc_reply_queue, ipc_send_queue, slotVars,
                   send_to, send_message, result, histVars, trap_start, poll_start,
                   last_run>>
    /\ UNCHANGED <<memVars, otherVars>>

\* An iteration of thread_loop whose syscall awaits (handle_syscall, line 44
\* of user.rs): the thread runs for d ticks and traps into a syscall that
\* waits on the task's own queue, as receive does without a message.  The
\* first poll of the WaitFuture pushes the waker and returns Pending.
wait(t, d) ==
    /\ InUser(t)
    /\ time + d <= MaxTime
    /\ MayTrap("wait", remaining[t], d)
    /\ LET armed == remaining[t]
           left == saturating_sub(armed, since_boot(d))
       IN /\ time' = time + d
          /\ timer' = Some(next_event(time, armed))
          /\ remaining' = [remaining EXCEPT ![t] = left]
          /\ trap_start' = [trap_start EXCEPT ![t] = since_boot(time + d)]
          /\ ipc_receive_queue' = [ipc_receive_queue EXCEPT ![t] = Append(@, t)]
          /\ pc' = [pc EXCEPT ![t] = "recv_wait"]
          /\ last_exec' = [id |-> Some(t), armed |-> armed,
                           set |-> Some(next_event(time, armed)), at |-> time,
                           before |-> remaining[t], trap |-> "wait",
                           resume |-> "Pending", remaining |-> left, quiet |-> FALSE]
          /\ EndPoll(t, "pending", "wait", armed, time + d, <<>>)
    /\ UNCHANGED <<ready_queue, ready_keys, ipc_reply_queue, ipc_send_queue, slotVars,
                   send_to, send_message, result, histVars, poll_start, last_run,
                   exited>>
    /\ UNCHANGED <<memVars, otherVars>>

\* The rest of that iteration when the task is polled again: the WaitFuture
\* is Ready, the syscall returns Continue after h more ticks, and the time
\* since `start` (line 40) is taken off the quantum.
waited(t, h) ==
    /\ Running(t)
    /\ pc[t] = "recv"
    /\ time + h <= MaxTime
    /\ LET left == remaining[t]
           resume == Overridden(Resume("wait"), left)
           spent == saturating_sub(left, saturating_sub(since_boot(time + h),
                                                        trap_start[t]))
       IN /\ time' = time + h
          /\ last_exec' = [last_exec EXCEPT !.id = Some(t), !.before = left,
                                            !.trap = "wait", !.resume = resume,
                                            !.remaining = IF resume = "Yield"
                                                          THEN max_run_duration
                                                          ELSE spent,
                                            !.quiet = FALSE]
          /\ IF resume = "Continue"
             THEN /\ pc' = [pc EXCEPT ![t] = "user"]
                  /\ remaining' = [remaining EXCEPT ![t] = spent]
                  /\ UNCHANGED <<vruntime, current, tasks, alive, poisoned_reply,
                                 poisoned_send, last_end, ready_ids, panicked>>
             ELSE Dispatch(t, resume, spent, "wait", left, time + h, <<>>)
    /\ UNCHANGED <<ready_queue, ready_keys, queueVars, slotVars, send_to, send_message,
                   result, histVars, timer, trap_start, poll_start, last_run, exited>>
    /\ UNCHANGED <<memVars, otherVars>>

\* the state of the executor and of the thread loops after boot: spawn has
\* given every task the virtual runtime 0 of an empty ready queue, every
\* thread loop starts with a full quantum
SchedBoot ==
    /\ vruntime = [t \in Ids |-> 0]
    /\ ready_keys = <<>>
    /\ time = 0
    /\ timer = None
    /\ remaining = [t \in Ids |-> max_run_duration]
    /\ trap_start = [t \in Ids |-> 0]
    /\ poll_start = 0
    /\ last_run = [n |-> 0, woken |-> <<>>, tasks |-> {}, found |-> [keys |-> <<>>, ids |-> <<>>],
                   vruntime |-> [t \in Ids |-> 0],
                   drained |-> [keys |-> <<>>, ids |-> <<>>], polled |-> None,
                   after |-> NoEnd]
    /\ last_end = NoEnd
    /\ last_exec = NoExec(None, FALSE)
    /\ exited = {}


\* the state of everything modelled after the memory: nothing has run yet
\* ------------------------------------------------- the service registry
Names == 1 .. MaxNames

\* registry.values().any(|&task_id| task_id == id)
TaskAlreadyRegistered_never(reg, id) == FALSE

TaskAlreadyRegistered(reg, id) == \E e \in reg : e[2] = id

\* registry.contains_key(&name)
NameNotAvailable(reg, name) == \E e \in reg : e[1] = name

\* HashMap::insert: the entry of an equal key is replaced
map_insert(reg, name, id) == {e \in reg : e[1] # name} \cup {<<name, id>>}

\* HashMap::get(name).copied()
map_get(reg, name) == {e[2] : e \in {f \in reg : f[1] = name}}

\* ipc::service::register
register(name, id) ==
    LET res == IF TaskAlreadyRegistered(registry, id) THEN "TaskAlreadyRegistered"
               ELSE IF NameNotAvailable(registry, name) THEN "NameNotAvailable"
               ELSE "Ok"
    IN /\ registry' = IF res = "Ok" THEN map_insert(registry, name, id) ELSE registry
       /\ owner' = IF res = "Ok" THEN [owner EXCEPT ![name] = @ \cup {id}] ELSE owner
       /\ last_register' = [name |-> Some(name), id |-> Some(id), result |-> res,
                            before |-> registry]
       /\ UNCHANGED last_lookup
       /\ UNCHANGED <<ipcVars, panicked, memVars, schedVars, gateVars, extraVars>>

\* ipc::service::lookup
lookup(name) ==
    /\ last_lookup' = [name |-> Some(name), value |-> map_get(registry, name),
                       owners |-> owner[name]]
    /\ UNCHANGED <<registry, owner, last_register>>
    /\ UNCHANGED <<ipcVars, panicked, memVars, schedVars, gateVars, extraVars>>

\* ipc::service::setup: an empty map
RegistryBoot ==
    /\ registry = {}
    /\ owner = [n \in Names |-> {}]
    /\ last_register = [name |-> None, id |-> None, result |-> "none", before |-> {}]
    /\ last_lookup = [name |-> None, value |-> None, owners |-> {}]

\* ------------------------------------------------ the user-operation gate
\* irq::enabled: the State of the interrupts
enabled == IF sie THEN "Enabled" ELSE "Disabled"

\* a restore that always enables the interrupts
restore_enabled(state) == TRUE

\* irq::restore(state): the value it leaves in sstatus.SIE
restore(state) == state = "Enabled"

\* the rest of the kernel and the gate's own locals are left alone
GateStep(from, to) ==
    /\ ~panicked
    /\ gate_pc = from
    /\ gate_pc' = to
    /\ UNCHANGED <<ipcVars, memVars, schedVars, regVars, extraVars>>

\* irq::enable and irq::disable called by the rest of the kernel, outside a
\* user operation
set_irq(on) ==
    /\ GateStep("idle", "idle")
    /\ sie' = on
    /\ UNCHANGED <<panicked, sum, user_operation, irq_state, was_in_operation, gate_log>>

\* copy_from / copy_to call perform_user_operation, which enters
\* irq::without: let state = save_and_disable()
save_and_disable(entry) ==
    /\ GateStep("idle", "without")
    /\ gate_log.n < MaxCopies
    /\ irq_state' = enabled
    /\ sie' = FALSE
    /\ gate_log' = [n |-> gate_log.n + 1, before |-> sie, after |-> sie,
                    entry |-> entry, over |-> FALSE]
    /\ UNCHANGED <<panicked, sum, user_operation, was_in_operation>>

\* start_user_operation, line 94: USER_OPERATION.swap(true)
start_swap ==
    /\ GateStep("without", "start_swapped")
    /\ was_in_operation' = user_operation
    /\ user_operation' = TRUE
    /\ UNCHANGED <<panicked, sum, sie, irq_state, gate_log>>

\* start_user_operation, line 95: allow_user_page_access()
start_allow ==
    /\ GateStep("start_swapped", "start_allowed")
    /\ sum' = TRUE
    /\ UNCHANGED <<panicked, sie, user_operation, irq_state, was_in_operation, gate_log>>

\* start_user_operation, lines 96-99: assert!(!was_in_operation)
start_assert ==
    /\ GateStep("start_allowed", IF was_in_operation THEN "nested" ELSE "open")
    /\ panicked' = was_in_operation
    /\ UNCHANGED <<sum, sie, user_operation, irq_state, was_in_operation, gate_log>>

\* f(): copy_nonoverlapping.  An access that faults traps into
\* kernel_trap_handler, which is unimplemented!().
copy(faults) ==
    /\ GateStep("open", IF faults THEN "trapped" ELSE "copied")
    /\ panicked' = faults
    /\ UNCHANGED <<sum, sie, user_operation, irq_state, was_in_operation, gate_log>>

\* end_user_operation, line 109: forbid_user_page_access()
end_forbid ==
    /\ GateStep("copied", "end_forbidden")
    /\ sum' = FALSE
    /\ UNCHANGED <<panicked, sie, user_operation, irq_state, was_in_operation, gate_log>>

\* end_user_operation, line 110: USER_OPERATION.swap(false)
end_swap ==
    /\ GateStep("end_forbidden", "end_swapped")
    /\ was_in_operation' = user_operation
    /\ user_operation' = FALSE
    /\ UNCHANGED <<panicked, sum, sie, irq_state, gate_log>>

\* end_user_operation, lines 111-114: assert!(was_in_operation)
end_assert ==
    /\ GateStep("end_swapped", IF was_in_operation THEN "closed" ELSE "unopened")
    /\ panicked' = ~was_in_operation
    /\ UNCHANGED <<sum, sie, user_operation, irq_state, was_in_operation, gate_log>>

\* irq::without, lines 74-76: restore(state), and the return to the caller
without_restore ==
    /\ GateStep("closed", "idle")
    /\ sie' = restore(irq_state)
    /\ gate_log' = [gate_log EXCEPT !.after = restore(irq_state), !.over = TRUE]
    /\ UNCHANGED <<panicked, sum, user_operation, irq_state, was_in_operation>>

\* an interrupt taken in supervisor mode, which needs sstatus.SIE: it enters
\* kernel_trap_handler, which is unimplemented!()
kernel_trap_handler ==
    /\ GateStep(gate_pc, gate_pc)
    /\ sie
    /\ panicked' = TRUE
    /\ UNCHANGED <<sum, sie, user_operation, irq_state, was_in_operation, gate_log>>

\* the kernel runs with interrupts disabled and the gate closed
GateBoot ==
    /\ sum = FALSE
    /\ sie = FALSE
    /\ user_operation = FALSE
    /\ gate_pc = "idle"
    /\ irq_state = "Disabled"
    /\ was_in_operation = FALSE
    /\ gate_log = [n |-> 0, before |-> FALSE, after |-> FALSE, entry |-> "none",
                   over |-> FALSE]

\* ------------------------------------------------ address translation
\* usize arithmetic wraps at WORD
WORD == 2 ^ WordBits

\* Physical::MAX: the size of the memory bus
Physical_MAX == 2 ^ (WordBits - 2) - 1

\* Virtual::<Kernel>::START: the kernel owns the upper half
Virtual_Kernel_START == WORD \div 2

\* the kernel window is the last half of the root table's entries: its last
\* GiB maps the kernel image, the rest maps physical memory from address 0
KERNEL_START == WORD - (TableEntries \div 2) * GIB
KERNEL_VIRTUAL_BASE == WORD - GIB

\* what a call that may panic comes to
Panics == [panic |-> TRUE, value |-> None]
Returns(v) == [panic |-> FALSE, value |-> Some(v)]

\* Physical::new
Physical_new(addr) == IF addr <= Physical_MAX THEN Returns(addr) ELSE Panics

\* Virtual::<Kernel>::try_new
Virtual_Kernel_try_new(addr) ==
    IF addr >= Virtual_Kernel_START THEN Some(addr) ELSE None

\* Virtual::<Kernel>::new
Virtual_Kernel_new(addr) ==
    IF Virtual_Kernel_try_new(addr) = None
    THEN Panics
    ELSE Returns(TheOne(Virtual_Kernel_try_new(addr)))

\* mmu::translate_physical: an Option<Virtual<Kernel>>, always Some.  The
\* sum panics when it overflows in a build with overflow checks and wraps in
\* a build without them.
translate_physical(phys, overflow_checks) ==
    IF overflow_checks /\ KERNEL_START + phys >= WORD
    THEN Panics
    ELSE IF Virtual_Kernel_new((KERNEL_START + phys) % WORD).panic
         THEN Panics
         ELSE Returns(Virtual_Kernel_new((KERNEL_START + phys) % WORD).value)

\* mmu::translate_virtual_kernel
translate_virtual_kernel(virt, overflow_checks) ==
    IF virt >= KERNEL_VIRTUAL_BASE
    THEN Physical_new(virt - KERNEL_VIRTUAL_BASE + KERNEL_PHYSICAL_BASE)
    ELSE IF overflow_checks /\ virt < KERNEL_START
         THEN Panics
         ELSE Physical_new((virt - KERNEL_START) % WORD)

\* the physical addresses tried: inside the window that maps physical
\* memory, past its end, past the end of the kernel window, and the last one
PhysicalInputs ==
    {p * (GIB \div 8) + o : p \in 0 .. MaxStep, o \in {0, 1, PAGE_SIZE}}
        \cup {Physical_MAX}

NotTranslated == [panic |-> FALSE, value |-> None]

\* a caller hands a physical address to translate_physical
to_virtual(overflow_checks) ==
    /\ ~panicked
    /\ translation.step = "input"
    /\ translation' = [translation EXCEPT
           !.virt = translate_physical(translation.phys, overflow_checks),
           !.step = "virtual"]
    /\ panicked' = translate_physical(translation.phys, overflow_checks).panic
    /\ UNCHANGED <<ipcVars, memVars, schedVars, regVars, gateVars, copyVars, lockVars>>

\* and hands the kernel address it got to translate_virtual_kernel
to_physical(overflow_checks) ==
    /\ ~panicked
    /\ translation.step = "virtual"
    /\ translation.virt.value # None
    /\ translation' = [translation EXCEPT
           !.back = translate_virtual_kernel(TheOne(TheOne(translation.virt.value)),
                                             overflow_checks),
           !.step = "physical"]
    /\ panicked' = translate_virtual_kernel(TheOne(TheOne(translation.virt.value)),
                                            overflow_checks).panic
    /\ UNCHANGED <<ipcVars, memVars, schedVars, regVars, gateVars, copyVars, lockVars>>

\* ------------------------------------------- user copies of the threads
\* the root table of the thread of task t
RootOf(t) == t + 1

\* RootTable::set_current: satp once it has returned
satp_after_set_current_stale(r) == active

satp_after_set_current(r) == InRoot(r)

AtUser == [call |-> "none", step |-> "user", waited |-> FALSE]

NoCopy == [owner |-> 0, table |-> InKernel, entry |-> "none", waited |-> FALSE,
           between |-> {}]

\* the parked tasks a call of the running task wakes: send wakes the receivers
\* (ipc_receive_queue.wake_one), receive and reply the senders (wake_all)
Parked(call) == {u \in tasks : thread_pc[u].call = call /\ thread_pc[u].step = "wait"}

\* what the actions of this section leave alone
copyFrame == <<tasks, ready_ids, ready_queue, queueVars, slotVars, lifeVars,
               futVars, result, histVars, panicked, bitmap, mem, roots, held,
               stray, last_call, schedVars, regVars, gateVars, translation,
               lockVars>>

\* Executor::run_once: a task that is ready is polled
pick(t) ==
    /\ current = None
    /\ t \in tasks
    /\ thread_pc[t].step = "user" \/ t \in awake
    /\ current' = Some(t)
    /\ awake' = awake \ {t}
    /\ UNCHANGED <<copyFrame, active, thread_pc, ran_since, copy_log>>

\* arch::thread::execute: the table of the thread is made current and the
\* thread runs in user mode until it traps
execute(t) ==
    /\ current = Some(t)
    /\ thread_pc[t].step = "user"
    /\ active' = satp_after_set_current(RootOf(t))
    /\ thread_pc' = [thread_pc EXCEPT ![t] = [AtUser EXCEPT !.step = "trapped"]]
    /\ ran_since' = [u \in Ids |->
                       IF u # t /\ thread_pc[u].step = "wait"
                       THEN ran_since[u] \cup {t} ELSE ran_since[u]]
    /\ UNCHANGED <<copyFrame, current, awake, copy_log>>

\* thread_loop on Trap::Interrupt: the thread goes on or yields
handle_interrupt(t, yields) ==
    /\ current = Some(t)
    /\ thread_pc[t].step = "trapped"
    /\ thread_pc' = [thread_pc EXCEPT ![t] = AtUser]
    /\ current' = IF yields THEN None ELSE current
    /\ UNCHANGED <<copyFrame, active, awake, ran_since, copy_log>>

\* thread_loop on Trap::Syscall: send and reply first read their argument
\* from user space; receive has a message to write back or parks
handle_syscall(t, call, ready) ==
    /\ current = Some(t)
    /\ thread_pc[t].step = "trapped"
    /\ IF call = "receive"
       THEN IF ready
            THEN /\ thread_pc' = [thread_pc EXCEPT ![t] =
                       [call |-> call, step |-> "write", waited |-> FALSE]]
                 /\ UNCHANGED <<current, awake, ran_since>>
            ELSE /\ thread_pc' = [thread_pc EXCEPT ![t] =
                       [call |-> call, step |-> "wait", waited |-> TRUE]]
                 /\ current' = None
                 /\ awake' = awake \cup Parked("send")
                 /\ ran_since' = [ran_since EXCEPT ![t] = {}]
       ELSE /\ thread_pc' = [thread_pc EXCEPT ![t] =
                  [call |-> call, step |-> "read", waited |-> FALSE]]
            /\ UNCHANGED <<current, awake, ran_since>>
    /\ UNCHANGED <<copyFrame, active, copy_log>>

\* copy_from, copy_to: thread.root_table().set_current()
root_table_set_current(t) ==
    /\ current = Some(t)
    /\ thread_pc[t].step \in {"read", "write"}
    /\ active' = satp_after_set_current(RootOf(t))
    /\ thread_pc' = [thread_pc EXCEPT ![t].step =
                        IF thread_pc[t].step = "read" THEN "reading" ELSE "writing"]
    /\ UNCHANGED <<copyFrame, current, awake, ran_since, copy_log>>

\* copy_from, copy_to: perform_user_operation.  After the read, send parks
\* for its reply unless the target does not exist, and reply wakes the
\* senders; after the write-back the system call is over.
user_copy(t, fails) ==
    /\ current = Some(t)
    /\ thread_pc[t].step \in {"reading", "writing"}
    /\ copy_log' = [owner |-> t, table |-> active,
                    entry |-> IF thread_pc[t].step = "reading"
                              THEN "copy_from" ELSE "copy_to",
                    waited |-> thread_pc[t].waited,
                    between |-> ran_since[t]]
    /\ IF thread_pc[t].step = "reading" /\ thread_pc[t].call = "send" /\ ~fails
       THEN /\ thread_pc' = [thread_pc EXCEPT ![t] =
                  [call |-> "send", step |-> "wait", waited |-> TRUE]]
            /\ current' = None
            /\ awake' = awake \cup Parked("receive")
            /\ ran_since' = [ran_since EXCEPT ![t] = {}]
       ELSE /\ thread_pc' = [thread_pc EXCEPT ![t] = AtUser]
            /\ awake' = IF thread_pc[t].call = "reply" /\ ~fails
                        THEN awake \cup Parked("send") ELSE awake
            /\ UNCHANGED <<current, ran_since>>
    /\ UNCHANGED <<copyFrame, active>>

\* the parked future is polled again: what it waited for is there and is
\* written back, or it is not and the task parks again, or the peer is gone
\* and the system call fails with nothing to write
resume_wait(t, outcome) ==
    /\ current = Some(t)
    /\ thread_pc[t].step = "wait"
    /\ outcome = "destroyed" => thread_pc[t].call = "send"
    /\ thread_pc' = [thread_pc EXCEPT ![t] =
           IF outcome = "ready" THEN [@ EXCEPT !.step = "write"]
           ELSE IF outcome = "again" THEN @
           ELSE AtUser]
    /\ current' = IF outcome = "again" THEN None ELSE current
    /\ UNCHANGED <<copyFrame, active, awake, ran_since, copy_log>>

\* ------------------------------------- the locks of send and of receive
\* TASK_LOCAL_DATA_MAP (a reader-writer lock, taken for reading) and the
\* three mutexes of the LocalDataSet of task id
MapLock == <<"map", 0>>
StateLock(id) == <<"ipc_waiting_state", id>>
MessageLock(id) == <<"ipc_message", id>>
ReplyLock(id) == <<"ipc_reply", id>>

\* the guards alive inside each closure of send (t sends to `to`) and of
\* receive, by the statement of message.rs that holds the closure
Closure(at, t, to) ==
    CASE at = "send_probe" -> {MapLock, StateLock(to)}
      [] at = "send_mark" -> {MapLock, StateLock(t)}
      [] at = "send_deposit" -> {MapLock, MessageLock(to)}
      [] at = "reply_take" -> {MapLock, ReplyLock(t), StateLock(t)}
      [] at = "reply_queue" -> {MapLock}
      [] at = "receive_take" -> {MapLock, MessageLock(t)}
      [] at = "receive_mark" -> {MapLock, StateLock(t)}
      [] OTHER -> {}

\* the statements a closure may be followed by; "idle" is the return
After(at) ==
    CASE at = "send_probe" -> {"send_mark", "send_deposit", "idle"}
      [] at = "send_mark" -> {"send_wait"}
      [] at = "send_deposit" -> {"reply_take", "idle"}
      [] at = "reply_take" -> {"reply_queue", "idle"}
      [] at = "reply_queue" -> {"reply_wait", "idle"}
      [] at = "receive_take" -> {"receive_mark", "idle"}
      [] at = "receive_mark" -> {"receive_wait"}
      [] OTHER -> {}

\* the awaits of a wait queue, and the statement each loop goes on with
AwaitStatements == {"send_wait", "reply_wait", "receive_wait"}

AfterWait(at) ==
    CASE at = "send_wait" -> "send_probe"
      [] at = "reply_wait" -> "reply_take"
      [] OTHER -> "receive_take"

\* the guards a task is left with when the closure returns: the closure's
\* own are dropped
released_none(guards, closure) == guards

released(guards, closure) == guards \ closure

Idle == [at |-> "idle", phase |-> "before", to |-> 0, again |-> FALSE]

lockFrame == <<tasks, ready_ids, ready_queue, queueVars, slotVars, lifeVars,
               futVars, result, histVars, panicked, memVars, schedVars,
               regVars, gateVars, translation, copyVars>>

\* a task is polled and calls send(to, ..) or receive()
begin(t, call, to) ==
    /\ current = None
    /\ t \in tasks
    /\ lock_pc[t].at = "idle"
    /\ call = "receive" => to = t
    /\ current' = Some(t)
    /\ lock_pc' = [lock_pc EXCEPT ![t] =
           [at |-> IF call = "send" THEN "send_probe" ELSE "receive_take",
            phase |-> "before", to |-> to, again |-> FALSE]]
    /\ UNCHANGED <<lockFrame, held_by>>

\* try_with_local_set_from, with_current_local_set: the map is locked for
\* reading and the closure takes the mutexes it uses; a mutex that is held
\* is waited for
enter(t) ==
    /\ current = Some(t)
    /\ lock_pc[t].phase = "before"
    /\ Closure(lock_pc[t].at, t, lock_pc[t].to) # {}
    /\ \A u \in Ids :
          held_by[u] \cap (Closure(lock_pc[t].at, t, lock_pc[t].to) \ {MapLock}) = {}
    /\ held_by' = [held_by EXCEPT ![t] = @ \cup Closure(lock_pc[t].at, t, lock_pc[t].to)]
    /\ lock_pc' = [lock_pc EXCEPT ![t].phase = "inside"]
    /\ UNCHANGED <<lockFrame, current>>

\* the closure returns and its guards are dropped; the function goes on with
\* the next statement or returns
leave(t, next) ==
    /\ current = Some(t)
    /\ lock_pc[t].phase = "inside"
    /\ next \in After(lock_pc[t].at)
    /\ held_by' = [held_by EXCEPT ![t] =
                      released(@, Closure(lock_pc[t].at, t, lock_pc[t].to))]
    /\ lock_pc' = [lock_pc EXCEPT ![t] =
                      IF next = "idle" THEN Idle
                      ELSE [@ EXCEPT !.at = next, !.phase = "before"]]
    /\ current' = IF next = "idle" THEN None ELSE current
    /\ UNCHANGED lockFrame

\* future::wait::wait(&queue).await: the poll returns Pending
suspend(t) ==
    /\ current = Some(t)
    /\ lock_pc[t].at \in AwaitStatements
    /\ lock_pc[t].phase = "before"
    /\ lock_pc' = [lock_pc EXCEPT ![t].phase = "parked"]
    /\ current' = None
    /\ UNCHANGED <<lockFrame, held_by>>

\* the task is woken and polled again: the loop goes round
resume(t) ==
    /\ current = None
    /\ lock_pc[t].phase = "parked"
    /\ current' = Some(t)
    /\ lock_pc' = [lock_pc EXCEPT ![t].at = AfterWait(lock_pc[t].at),
                                  ![t].phase = "before",
                                  ![t].again = TRUE]
    /\ UNCHANGED <<lockFrame, held_by>>

LockBoot ==
    /\ lock_pc = [t \in Ids |-> Idle]
    /\ held_by = [t \in Ids |-> {}]

CopyBoot ==
    /\ thread_pc = [t \in Ids |-> AtUser]
    /\ awake = {}
    /\ ran_since = [t \in Ids |-> {}]
    /\ copy_log = NoCopy

ExtraBoot ==
    /\ CopyBoot
    /\ LockBoot
    /\ translation = [phys |-> 0, virt |-> NotTranslated, back |-> NotTranslated,
                      step |-> "none"]

LaterBoot == SchedBoot /\ RegistryBoot /\ GateBoot /\ ExtraBoot

\* ------------------------------------------------------- specification
\* The state after boot: executor::spawn has run for MaxTasks threads.  Each
\* has a task with a default LocalDataSet and its id pushed on ready_ids.
Boot(n, each, total) ==
    /\ tasks = 0 .. (n - 1)
    /\ current = None
    /\ ready_ids = [i \in 1 .. n |-> i - 1]
    /\ ready_queue = <<>>
    /\ alive = 0 .. (n - 1)
    /\ ipc_waiting_state = [t \in Ids |-> StNone]
    /\ ipc_message = [t \in Ids |-> None]
    /\ ipc_reply = [t \in Ids |-> None]
    /\ ipc_receive_queue = [t \in Ids |-> <<>>]
    /\ ipc_reply_queue = [t \in Ids |-> <<>>]
    /\ ipc_send_queue = [t \in Ids |-> <<>>]
    /\ poisoned_reply = {}
    /\ poisoned_send = {}
    /\ pc = [t \in Ids |-> "user"]
    /\ send_to = [t \in Ids |-> None]
    /\ send_message = [t \in Ids |-> None]
    /\ result = [t \in Ids |-> NoResult]
    /\ panicked = FALSE
    /\ budget = [each |-> each, total |-> total]
    /\ nsys = [t \in Ids |-> 0]
    /\ last_received = [b \in Ids |-> [a \in TargetIds |-> NoTag]]
    /\ replies_for = {}

Init == Boot(MaxTasks, MaxSyscalls, MaxTotal) /\ MemBoot(WholeMap) /\ LaterBoot

\* Only the task being polled acts; the executor acts when none is.
Next ==
    \/ RunOnce
    \/ \E t \in current : MaySyscall(t) /\
          \E to \in TargetIds, kind \in Kinds, len \in PayloadLens,
             buf \in UserBufs : SysSend(t, to, kind, len, buf)
    \/ \E t \in current : Send1(t)
    \/ \E t \in current : Send2(t)
    \/ \E t \in current : SysReceive(t)
    \/ \E t \in current : Recv(t)
    \/ \E t \in current : MaySyscall(t) /\
          \E to \in TargetIds, status \in Kinds, len \in PayloadLens,
             buf \in UserBufs : SysReply(t, to, status, len, buf)
    \/ \E t \in current : Yield(t)
    \/ \E t \in current : Exit(t)

Spec == Init /\ [][Next]_vars

\* two tasks only (a client and a server), with a longer run each
InitPair == Boot(2, PairSyscalls, PairTotal) /\ MemBoot(WholeMap) /\ LaterBoot

NextPair ==
    \/ RunOnce
    \/ \E t \in current : MaySyscall(t) /\
          \E to \in PairTargetIds, kind \in Kinds, len \in PairLens,
             buf \in UserBufs : SysSend(t, to, kind, len, buf)
    \/ \E t \in current : Send1(t)
    \/ \E t \in current : Send2(t)
    \/ \E t \in current : SysReceive(t)
    \/ \E t \in current : Recv(t)
    \/ \E t \in current : MaySyscall(t) /\
          \E to \in PairTargetIds, status \in Kinds, len \in PairLens,
             buf \in UserBufs : SysReply(t, to, status, len, buf)
    \/ \E t \in current : Yield(t)
    \/ \E t \in current : Exit(t)

SpecPair == InitPair /\ [][NextPair]_vars

\* ------------------------------------------------------------- properties
\* task t is back in user mode from a syscall `op` that returned `err`
Returned(t, op, err) ==
    pc[t] = "user" /\ result[t].op = op /\ result[t].err = err

\* the reply calls accepted for the message tagged g
RepliesTo(g) == {r \in replies_for : r[1] = g}

\* C1: when A's send of a message has returned Ok, and the receiver, after
\* obtaining that message from receive, made one reply call to A, the reply
\* returned to A has the status passed to that call and its payload starts
\* with the bytes passed to it.
C1_RoundTrip ==
    \A t \in Ids :
        Returned(t, "send", "Ok") /\ Cardinality(RepliesTo(result[t].tag)) = 1
        => \A r \in RepliesTo(result[t].tag) :
              /\ TheOne(result[t].value).status = r[2]
              /\ SliceTo(TheOne(result[t].value).payload, Len(r[3])) = r[3]

\* C2: a step that writes a task's inbound message slot or inbound reply slot
\* finds the slot empty, whatever the number of senders.
C2_SlotsWrittenEmpty ==
    [][\A t \in Ids :
          /\ (ipc_message'[t] # ipc_message[t] /\ ipc_message'[t] # None
              => ipc_message[t] = None)
          /\ (ipc_reply'[t] # ipc_reply[t] /\ ipc_reply'[t] # None
              => ipc_reply[t] = None)]_vars

\* C3: a sender's waiting state is None again once its send has returned.
C3_SenderStateNoneAfterSend ==
    \A t \in alive :
        pc[t] = "user" /\ result[t].op = "send" /\ result[t].err # "Pending"
        => ipc_waiting_state[t] = StNone

\* C4: a task's waiting state is WaitingForMessage only while it is suspended
\* in receive with an empty message slot.
C4_WaitingForMessageOnlyIdle ==
    \A t \in alive :
        ipc_waiting_state[t] = StWaitingForMessage
        => pc[t] = "recv_wait" /\ ipc_message[t] = None

\* C5: the reply a send returns was made by a reply call issued while that
\* send was in progress, and when receive returns a message its sender is
\* not in WaitingForSend.
C5_ReplyAfterSend ==
    \A t \in Ids :
        /\ Returned(t, "send", "Ok") => result[t].during = result[t].tag
        /\ Returned(t, "receive", "Ok")
           => result[t].peer_state # Some(StWaitingForSend)

\* task t issues, in this step, a syscall `op` that got past the payload_len
\* validation of the syscall layer, naming the peer `to` (a yield leaves the
\* result of the previous syscall in place)
Calls(t, op, to) ==
    /\ InUser(t)
    /\ nsys'[t] # nsys[t]
    /\ pc'[t] # "yield_wait"
    /\ result'[t].op = op
    /\ result'[t].to = Some(to)
    /\ ~result'[t].oversize

\* C6: a send to an identifier for which no task exists returns
\* TaskDoesNotExist in the step that issues it: the sender stays in user mode
\* and stays the current task, no waker is placed on a wait queue or on the
\* ready queue, and no message slot, reply slot or waiting state changes.
C6_SendToMissingTask ==
    [][\A t \in Ids, to \in TargetIds :
          Calls(t, "send", to) /\ to \notin alive
          => /\ result'[t].err = "TaskDoesNotExist"
             /\ pc'[t] = "user"
             /\ current' = current
             /\ UNCHANGED <<tasks, ready_ids, ready_queue, queueVars,
                            slotVars, lifeVars>>]_vars

C6_Witness ==
    \E t \in Ids : Returned(t, "send", "TaskDoesNotExist")

Range(q) == {q[i] : i \in 1 .. Len(q)}

\* task t is suspended in a send whose peer has been destroyed
BlockedOnDestroyed(t) ==
    /\ pc[t] \in {"send_wait", "reply_wait"}
    /\ send_to[t] \cap alive = {}

\* task t, resumed in a send whose peer has been destroyed, returns
ReturnsFromDestroyed(t) ==
    /\ current = Some(t)
    /\ pc[t] \in {"send1", "send2"}
    /\ send_to[t] \cap alive = {}
    /\ pc'[t] = "user"

\* C7 as stated: a send that was blocked on a task destroyed meanwhile
\* returns TaskDestroyed.
C7_DestroyedPeerReturnsTaskDestroyed ==
    [][\A t \in Ids :
          ReturnsFromDestroyed(t) => result'[t].err = "TaskDestroyed"]_vars

\* C7 amended: a task blocked in a send to a destroyed task has been woken
\* (its id is on its way to be polled), and when polled its send returns
\* TaskDestroyed, unless a reply was deposited for it before the destruction,
\* in which case its send returns that reply.
C7_DestroyedPeerWakesSender ==
    /\ [](\A t \in Ids :
            BlockedOnDestroyed(t)
            => t \in tasks /\ t \in Range(ready_ids) \cup Range(ready_queue))
    /\ [][\A t \in Ids :
            ReturnsFromDestroyed(t)
            => IF pc[t] = "send2" /\ ipc_reply[t] # None
               THEN /\ result'[t].err = "Ok"
                    /\ result'[t].value = Some(UserReply(TheOne(ipc_reply[t])))
               ELSE result'[t].err = "TaskDestroyed"]_vars

C7_Witness ==
    \E t \in Ids :
        /\ Returned(t, "send", "TaskDestroyed")
        /\ result[t].to \cap alive = {}
        /\ ipc_waiting_state[t].st = "WaitingForReply"

\* C8: a reply by task r to an existing task `to` deposits the reply exactly
\* when the waiting state of `to` is WaitingForReply(r); when `to` waits for
\* a reply from another task it fails with UnexpectedSender, in any other
\* state with NotWaitingForReply, and a failing reply leaves every reply slot
\* unchanged.
C8_ReplyChecksWaitingState ==
    [][\A r \in Ids, to \in Ids :
          Calls(r, "reply", to) /\ to \in alive
          => LET state == ipc_waiting_state[to] IN
             /\ state = StWaitingForReply(r)
                => /\ result'[r].err = "Ok"
                   /\ ipc_reply'[to] # None
                   /\ TheOne(ipc_reply'[to]).sender = r
             /\ state.st = "WaitingForReply" /\ state.from # Some(r)
                => result'[r].err = "UnexpectedSender"
             /\ state.st # "WaitingForReply"
                => result'[r].err = "NotWaitingForReply"
             /\ result'[r].err # "Ok" => ipc_reply' = ipc_reply]_vars

C8_Witness ==
    \E r \in Ids : Returned(r, "reply", "UnexpectedSender")

\* C9: a task that enters the reply wait has an empty reply slot and the
\* waiting state WaitingForReply(peer) at that moment.
C9_ReplySlotEmptyOnWait ==
    [][\A t \in Ids :
          pc[t] # "reply_wait" /\ pc'[t] = "reply_wait"
          => /\ ipc_reply'[t] = None
             /\ \E p \in send_to'[t] :
                   ipc_waiting_state'[t] = StWaitingForReply(p)]_vars

C9_Witness ==
    \E t \in Ids :
        /\ pc[t] = "reply_wait"
        /\ ipc_waiting_state[t].st = "WaitingForReply"
        /\ ipc_reply[t] = None

\* C10: the kernel never panics on a value supplied by a user task, and a
\* send or reply whose payload_len exceeds MAX_PAYLOAD_SIZE returns
\* PayloadTooLarge.
C10_OversizeRejected ==
    /\ ~panicked
    /\ \A t \in Ids : result[t].oversize => result[t].err = "PayloadTooLarge"

\* ============================================ the frame allocator alone
\* Callers allocate and release ranges in any order, with any count, flags
\* and base address.
InitPmm ==
    /\ Boot(0, 0, 0)
    /\ LaterBoot
    /\ \E regions \in MemoryMaps : MemBoot(regions)

NextPmm ==
    \/ last_call.n < MaxCalls /\
          \E count \in Counts, flags \in AllocationFlags : allocate_range(count, flags)
    \/ last_call.n < MaxCalls /\
          \E base \in Bases, count \in Counts : deallocate_range(base, count)

SpecPmm == InitPmm /\ [][NextPmm]_vars

\* the last call released exactly the range that the call before it had
\* allocated
ReleasedLastAllocation ==
    /\ last_call.op = "deallocate_range"
    /\ last_call.prev.op = "allocate_range"
    /\ last_call.prev.ret # None
    /\ last_call.base = last_call.prev.ret
    /\ last_call.count = last_call.prev.count

\* C11: when allocate_range(n, flags) returned Some(b) and deallocate_range(b, n)
\* follows, the call returns and every frame has the flags it had before the
\* allocation.
C11_DeallocateRestoresFlags ==
    ReleasedLastAllocation => ~panicked /\ bitmap = last_call.prev.before

\* a range of two frames allocated for the kernel and released again
C11_Witness ==
    /\ ReleasedLastAllocation
    /\ last_call.count = 2
    /\ "KERNEL" \in last_call.prev.flags

FrameFlags == {"FREE", "KERNEL", "FIRMWARE"}

FreeRun(bm, s, count) ==
    /\ s >= 0 /\ s + count <= NFrames
    /\ \A f \in s .. (s + count - 1) : "FREE" \in bm[f]

\* C13: an allocate_range(n, flags) that returns gives the lowest-addressed
\* run of n consecutive Free frames and makes exactly those n frames not
\* Free; when there is no such run it returns None and the directory is as
\* before.
C13_LowestFreeRun ==
    (last_call.op = "allocate_range" /\ ~last_call.panic) =>
        LET n == last_call.count
            before == last_call.before
        IN IF \E s \in FrameIds : FreeRun(before, s, n)
           THEN \E s \in FrameIds :
                  /\ FreeRun(before, s, n)
                  /\ \A r \in 0 .. (s - 1) : ~FreeRun(before, r, n)
                  /\ last_call.ret = Some(index2phys(s))
                  /\ \A f \in FrameIds :
                       IF f \in s .. (s + n - 1)
                       THEN "FREE" \notin bitmap[f]
                       ELSE bitmap[f] = before[f]
           ELSE last_call.ret = None /\ bitmap = before

\* a run of two frames returned from above a single Free frame
C13_Witness ==
    /\ last_call.op = "allocate_range"
    /\ last_call.count = 2
    /\ \E s \in FrameIds :
         /\ last_call.ret = Some(index2phys(s))
         /\ \E f \in 0 .. (s - 1) : "FREE" \in last_call.before[f]

\* ================================= the page-table engine and its callers
\* Threads are created and dropped; callers allocate frames, map frames they
\* hold, unmap addresses and release frames that are no longer mapped.
InitMmu == Boot(0, 0, 0) /\ MmuBoot /\ LaterBoot

NextMmu ==
    \/ last_call.n < MaxMmuCalls /\ \E r \in RootIds : create(r)
    \/ \E r \in RootIds : set_current(r)
    \/ last_call.n < MaxMmuCalls /\
          \E flags \in {{"ZEROED"}} : allocate_range(1, flags)
    \/ last_call.n < MaxMmuCalls /\
          \E f \in Unmapped_held : deallocate_range(index2phys(f), 1)
    \/ last_call.n < MaxMmuCalls /\
          \E r \in RootIds, virt \in MapVas, f \in held, rights \in MapRights,
             flags \in MapFlags : map(r, virt, index2phys(f), rights, flags)
    \/ last_call.n < MaxMmuCalls /\
          \E r \in RootIds, virt \in UnmapVas : unmap(r, virt)
    \/ last_call.n < MaxMmuCalls /\ \E r \in RootIds : drop(r)

SpecMmu == InitMmu /\ [][NextMmu]_vars

\* the tables as they are now
Now == [roots |-> roots, mem |-> mem, bitmap |-> bitmap]

\* where the SV39 walk of virt in root table r ends in the tables of snapshot s
WalkEnd(s, r, virt) ==
    LET vpn == vpn_sv39(virt)
        e2 == s.roots[r][vpn[1]]
    IN IF is_leaf(e2) THEN <<"leaf", 2>>
       ELSE IF ~e2.present THEN <<"missing", 2>>
       ELSE LET e1 == s.mem[frame_of(e2.addr)][vpn[2]]
            IN IF is_leaf(e1) THEN <<"leaf", 1>>
               ELSE IF ~e1.present THEN <<"missing", 1>>
               ELSE IF s.mem[frame_of(e1.addr)][vpn[3]].present
                    THEN <<"present", 0>>
                    ELSE <<"missing", 0>>

\* the entry that translates virt in root table r, if one does
Translation(s, r, virt) ==
    LET vpn == vpn_sv39(virt)
        e2 == s.roots[r][vpn[1]]
        end == WalkEnd(s, r, virt)
    IN IF end = <<"leaf", 2>> THEN Some(e2)
       ELSE IF end = <<"leaf", 1>> THEN Some(s.mem[frame_of(e2.addr)][vpn[2]])
       ELSE IF end = <<"present", 0>>
            THEN Some(s.mem[frame_of(s.mem[frame_of(e2.addr)][vpn[2]].addr)][vpn[3]])
            ELSE None

AllVas == {Va(i2, i1, i0) : i2 \in EntryIds, i1 \in EntryIds, i0 \in EntryIds}

IsUser(virt) == vpn_sv39(virt)[1] \in UserHalf

\* a table of missing entries in frame t
EmptyTable(s, t) == \A i \in EntryIds : s.mem[t][i] = MissingEntry

\* entry `new` installs, where nothing was, a table in a frame that was FREE
\* in snapshot b
Installed(b, old, new) ==
    /\ old = MissingEntry
    /\ new.present /\ ~is_leaf(new) /\ ~new.global /\ new.rights = {}
    /\ frame_of(new.addr) \in FrameIds
    /\ "FREE" \in b.bitmap[frame_of(new.addr)]

\* a new level-0 table holds nothing; a new level-1 table holds nothing but
\* new level-0 tables
NewTable0(b, s, old, new) == Installed(b, old, new) /\ EmptyTable(s, frame_of(new.addr))

NewTable1(b, s, old, new) ==
    /\ Installed(b, old, new)
    /\ \A i \in EntryIds :
         LET e == s.mem[frame_of(new.addr)][i]
         IN e = MissingEntry \/ NewTable0(b, s, MissingEntry, e)

\* every entry of root table r and of the tables under its user half is as in
\* snapshot b, but for tables installed since in frames that were FREE
SameButNewTables(b, s, r) ==
    /\ \A i \in EntryIds :
         \/ s.roots[r][i] = b.roots[r][i]
         \/ i \in UserHalf /\ NewTable1(b, s, b.roots[r][i], s.roots[r][i])
    /\ \A t \in Tables1(b.roots, b.mem, r), i \in EntryIds :
         \/ s.mem[t][i] = b.mem[t][i]
         \/ NewTable0(b, s, b.mem[t][i], s.mem[t][i])
    /\ \A t \in Tables0(b.roots, b.mem, r) : s.mem[t] = b.mem[t]

\* the last call is unmap(R, va) and the call before it a map(R, va, F, ..)
\* that succeeded, of a user address
UnmapAfterMap ==
    /\ last_call.op = "unmap"
    /\ last_call.prev.op = "map"
    /\ last_call.prev.ret = "Ok"
    /\ last_call.prev.root = last_call.root
    /\ last_call.prev.va = last_call.va
    /\ IsUser(last_call.va)

\* C14: for a user address va not mapped in R, a map(R, va, F, rights, flags)
\* followed by unmap(R, va) returns Ok(F), and every entry of R has the value
\* it had before the map, but that the intermediate tables the map allocated
\* stay installed.
C14_MapUnmapRoundTrip ==
    UnmapAfterMap =>
        /\ ~last_call.panic
        /\ last_call.ret = "Ok"
        /\ last_call.got = Some(last_call.prev.frame)
        /\ SameButNewTables(last_call.prev.before, Now, last_call.root)

\* the same for the rights that make the entry a leaf (R, W or X)
C14_RoundTripOfLeaf ==
    (UnmapAfterMap /\ last_call.prev.rights \cap {"R", "W", "X"} # {}) =>
        /\ ~last_call.panic
        /\ last_call.ret = "Ok"
        /\ last_call.got = Some(last_call.prev.frame)
        /\ SameButNewTables(last_call.prev.before, Now, last_call.root)

\* C15: unmap(R, va) returns NotMapped when the entry for va is missing at
\* any level of the walk, level 0 included, and UnsupportedFrameSize when the
\* walk meets a leaf above level 0; either way the call returns and the
\* tables are as before.
C15_UnmapErrors ==
    last_call.op = "unmap" =>
        LET end == WalkEnd(last_call.before, last_call.root, last_call.va)
        IN /\ end[1] = "missing" =>
                /\ ~last_call.panic
                /\ last_call.ret = "NotMapped"
                /\ roots = last_call.before.roots /\ mem = last_call.before.mem
           /\ end[1] = "leaf" =>
                /\ ~last_call.panic
                /\ last_call.ret = "UnsupportedFrameSize"
                /\ roots = last_call.before.roots /\ mem = last_call.before.mem

\* the same, but for an entry missing at level 0
C15_UnmapErrorsAboveLevel0 ==
    last_call.op = "unmap" =>
        LET end == WalkEnd(last_call.before, last_call.root, last_call.va)
        IN /\ (end[1] = "missing" /\ end[2] > 0) =>
                /\ ~last_call.panic
                /\ last_call.ret = "NotMapped"
                /\ roots = last_call.before.roots /\ mem = last_call.before.mem
           /\ end[1] = "leaf" =>
                /\ ~last_call.panic
                /\ last_call.ret = "UnsupportedFrameSize"
                /\ roots = last_call.before.roots /\ mem = last_call.before.mem

\* the FREE frames of snapshot s
FreeFrames(s) == {f \in FrameIds : "FREE" \in s.bitmap[f]}

\* C16: map returns AlreadyMapped when va has a present level-0 entry or the
\* walk meets a leaf above level 0, and OutOfMemory when an intermediate
\* table it needs cannot be allocated; whenever it returns an error, no leaf
\* was written for va and every leaf mapping of R is as before.
C16_MapErrors ==
    last_call.op = "map" =>
        LET b == last_call.before
            end == WalkEnd(b, last_call.root, last_call.va)
            free == Cardinality(FreeFrames(b))
        IN /\ ~last_call.panic
           /\ (end = <<"present", 0>> \/ end[1] = "leaf") =>
                last_call.ret = "AlreadyMapped"
           /\ (end = <<"missing", 2>> /\ free < 2) => last_call.ret = "OutOfMemory"
           /\ (end = <<"missing", 1>> /\ free < 1) => last_call.ret = "OutOfMemory"
           /\ last_call.ret # "Ok" =>
                \A virt \in AllVas :
                    Translation(Now, last_call.root, virt)
                        = Translation(b, last_call.root, virt)

\* a map that installed its level-1 table and then ran out of memory, in a
\* root table that already maps another address
C16_Witness ==
    /\ last_call.op = "map"
    /\ last_call.ret = "OutOfMemory"
    /\ WalkEnd(last_call.before, last_call.root, last_call.va) = <<"missing", 2>>
    /\ WalkEnd(Now, last_call.root, last_call.va) = <<"missing", 1>>
    /\ \E r \in DOMAIN roots, virt \in AllVas :
         IsUser(virt) /\ Translation(Now, r, virt) # None

\* the call before the last was unmap(R, 0x1000), and the call before that
\* map(R, 0x1000, F, RWXU, no flags) on a root table with an empty user half
UnmappedPageOne ==
    /\ last_call.prev.op = "unmap"
    /\ last_call.prev.va = Va(0, 0, 1)
    /\ last_call.prev.prev.op = "map"
    /\ last_call.prev.prev.ret = "Ok"
    /\ last_call.prev.prev.root = last_call.prev.root
    /\ last_call.prev.prev.va = Va(0, 0, 1)
    /\ last_call.prev.prev.rights = {"R", "W", "X", "U"}
    /\ last_call.prev.prev.flags = {}
    /\ last_call.prev.prev.fresh

\* the last call is the allocate_frame that follows that unmap
AllocateAfterUnmap ==
    /\ last_call.op = "allocate_range"
    /\ last_call.count = 1
    /\ UnmappedPageOne

\* C17 as stated: the unmap returns F, the level-0 leaf is cleared, and the
\* allocate_frame that follows returns F.
C17_NextAllocationIsF ==
    AllocateAfterUnmap =>
        /\ last_call.prev.ret = "Ok"
        /\ last_call.prev.got = Some(last_call.prev.prev.frame)
        /\ WalkEnd(Now, last_call.prev.root, Va(0, 0, 1)) = <<"missing", 0>>
        /\ last_call.ret = Some(last_call.prev.prev.frame)

\* C17 amended: the unmap returns F and the level-0 leaf is cleared, but F
\* stays allocated: the allocate_frame that follows returns another frame, or
\* None.
C17_FrameStaysAllocated ==
    AllocateAfterUnmap =>
        /\ last_call.prev.ret = "Ok"
        /\ last_call.prev.got = Some(last_call.prev.prev.frame)
        /\ WalkEnd(Now, last_call.prev.root, Va(0, 0, 1)) = <<"missing", 0>>
        /\ last_call.ret # Some(last_call.prev.prev.frame)
        /\ "FREE" \notin bitmap[phys2index(last_call.prev.prev.frame)]

\* the allocate_frame after the unmap found a frame
C17_Witness ==
    /\ AllocateAfterUnmap
    /\ last_call.ret # None

\* the kernel half of table t is the kernel half of table u
SameKernelHalf(t, u) == \A i \in KernelHalf : t[i] = u[i]

\* C18: the kernel half of every root table is the kernel half of the kernel
\* root table, and no map, unmap or drop changes a kernel-half entry of any
\* root table, the dropped one included.
C18_KernelHalfFixed ==
    /\ \A r \in DOMAIN roots : SameKernelHalf(roots[r], KERNEL_TABLE)
    /\ last_call.op \in {"map", "unmap", "drop"} =>
          /\ \A r \in DOMAIN roots \cap DOMAIN last_call.before.roots :
               SameKernelHalf(roots[r], last_call.before.roots[r])
          /\ SameKernelHalf(last_call.left, last_call.before.roots[last_call.root])

\* a root table was dropped after a map and an unmap of a kernel address
C18_Witness ==
    /\ last_call.op = "drop"
    /\ last_call.prev.op = "unmap"
    /\ ~IsUser(last_call.prev.va)
    /\ last_call.prev.prev.op = "map"
    /\ ~IsUser(last_call.prev.prev.va)
    /\ roots # <<>>

\* C19: every present leaf entry of every live root table refers to a frame
\* that is not FREE in the directory.
C19_LeavesNotFree ==
    \A r \in DOMAIN roots, virt \in AllVas :
        LET found == Translation(Now, r, virt)
        IN (found # None /\ is_leaf(TheOne(found))
              /\ frame_of(TheOne(found).addr) \in FrameIds)
           => "FREE" \notin bitmap[frame_of(TheOne(found).addr)]

\* a frame that two root tables map, after one of the two was dropped
SharedFrameDropped ==
    /\ last_call.op = "drop"
    /\ ~last_call.panic
    /\ \E r \in DOMAIN roots, virt \in AllVas :
         /\ IsUser(virt)
         /\ Translation(Now, r, virt) # None
         /\ \E k \in DOMAIN last_call.freed :
              last_call.freed[k].frame = frame_of(TheOne(Translation(Now, r, virt)).addr)

\* the frames the drop of root table r had to return, as the tables were
\* before the drop
Reachable(b, r) ==
    Tables1(b.roots, b.mem, r) \cup Tables0(b.roots, b.mem, r)
        \cup LeafFrames(b.roots, b.mem, r)

\* the frames a drop returned, in order
FreedFrames == [k \in DOMAIN last_call.freed |-> last_call.freed[k].frame]

\* C20: a drop makes the kernel table active before it frees any frame, and
\* when it is over every table and every leaf frame that was reachable from
\* the user half has been returned to the allocator exactly once, and no
\* frame the kernel half refers to has been freed.
C20_DropFreesOnce ==
    last_call.op = "drop" =>
        /\ ~last_call.panic
        /\ \A k \in DOMAIN last_call.freed : last_call.freed[k].active = InKernel
        /\ {FreedFrames[k] : k \in DOMAIN FreedFrames}
               = Reachable(last_call.before, last_call.root)
        /\ \A k, l \in DOMAIN FreedFrames : FreedFrames[k] = FreedFrames[l] => k = l
        /\ \A i \in KernelHalf, k \in DOMAIN FreedFrames :
               FreedFrames[k] # frame_of(last_call.before.roots[last_call.root][i].addr)

\* the same for the drops that return
C20_DropThatReturns ==
    (last_call.op = "drop" /\ ~last_call.panic) =>
        /\ \A k \in DOMAIN last_call.freed : last_call.freed[k].active = InKernel
        /\ {FreedFrames[k] : k \in DOMAIN FreedFrames}
               = Reachable(last_call.before, last_call.root)
        /\ \A k, l \in DOMAIN FreedFrames : FreedFrames[k] = FreedFrames[l] => k = l
        /\ \A i \in KernelHalf, k \in DOMAIN FreedFrames :
               FreedFrames[k] # frame_of(last_call.before.roots[last_call.root][i].addr)

\* ------------------------------------------------- the scheduler alone
\* Two threads have been spawned; each runs, traps and is scheduled.
InitSched == Boot(2, 0, 0) /\ MemBoot(WholeMap) /\ LaterBoot

NextSched ==
    \/ run_once
    \/ \E t \in current, trap \in Traps, d \in 0 .. MaxRunTicks, h \in 0 .. 1 :
          \E to \in IF trap = "notify" THEN Ids \ {t} ELSE {t} :
          thread_loop(t, trap, to, d, h)
    \/ \E t \in current, d \in 0 .. MaxRunTicks : wait(t, d)
    \/ \E t \in current, h \in 0 .. 1 : waited(t, h)

SpecSched == InitSched /\ [][NextSched]_vars

\* C21: the virtual runtime of a task never decreases, neither when a poll
\* adds the time it took nor when process_ready_ids puts the task back into
\* the ready queue under a clamped and bumped key.
C21_VruntimeNeverDecreases ==
    [][\A t \in Ids : vruntime'[t] >= vruntime[t]]_vars

\* a task that polls had charged before was raised again by its re-insertion
C21_Witness ==
    \E t \in Ids : /\ last_run.polled = Some(t)
                   /\ last_run.vruntime[t] > 0
                   /\ vruntime[t] > last_run.vruntime[t]

\* the woken ids the last run_once found a task for
Inserted == {i \in DOMAIN last_run.woken : last_run.woken[i] \in last_run.tasks}

\* the key under which the drain of the last run_once left task t
KeyOf(t) ==
    LET q == last_run.drained
    IN q.keys[CHOOSE j \in DOMAIN q.ids : q.ids[j] = t]

\* C22: the keys of the ready queue are all different; the drain of run_once
\* keeps every entry it found and adds one entry for each woken id that has a
\* task, so no insertion replaces an entry; and the task run_once polls is
\* the one under the smallest key.
C22_SmallestKeyFirst ==
    /\ \A i, j \in DOMAIN ready_keys : i < j => ready_keys[i] < ready_keys[j]
    /\ Len(ready_keys) = Len(ready_queue)
    /\ last_run.n > 0 =>
        LET q == last_run.drained
            found == last_run.found
        IN /\ Len(q.ids) = Len(found.ids) + Cardinality(Inserted)
           /\ \A i \in DOMAIN found.ids :
                 \E j \in DOMAIN q.ids : q.keys[j] = found.keys[i] /\ q.ids[j] = found.ids[i]
           /\ \A i, j \in DOMAIN q.keys : i < j => q.keys[i] < q.keys[j]
           /\ q.ids # <<>> => last_run.polled = Some(q.ids[1])
           /\ \A t \in last_run.polled : \A j \in DOMAIN q.keys : KeyOf(t) <= q.keys[j]

\* a woken task whose clamped virtual runtime was taken went in under a
\* higher key, behind the entry that held it, and a task was polled
C22_Witness ==
    /\ last_run.polled # None
    /\ last_run.found.keys # <<>>
    /\ \E i \in Inserted :
          KeyOf(last_run.woken[i]) >
              Clamped(last_run.vruntime[last_run.woken[i]], lowest(last_run.found.keys))

\* the wakers invoked since the run_once before the last one: the ids the
\* last run_once found in ready_ids (the first run_once finds the ids that
\* spawn pushed)
Woken == IF last_run.n >= 2 THEN {last_run.woken[i] : i \in Inserted} ELSE {}

\* the poll that ended last is over and run_once has not run since
JustEnded == current = None /\ last_end.id # None /\ last_end.n = last_run.n

\* C23 as stated: a task whose waker was invoked is polled by the next
\* run_once.
C23_PolledByNextRunOnce ==
    \A t \in Woken : last_run.polled = Some(t)

\* C23: a waker that is invoked enqueues the id of its task, and the next
\* run_once moves the id into the ready queue; it polls the task if its key
\* is then the smallest, and otherwise polls another task and leaves the
\* woken one in the ready queue.
C23_QueuedByNextRunOnce ==
    /\ (JustEnded /\ last_end.how = "yield") =>
            \E i \in DOMAIN ready_ids : Some(ready_ids[i]) = last_end.id
    /\ \A t \in Woken :
          /\ \E j \in DOMAIN last_run.drained.ids : last_run.drained.ids[j] = t
          /\ last_run.polled # None
          /\ last_run.polled = Some(t) <=>
                \A j \in DOMAIN last_run.drained.keys : KeyOf(t) <= last_run.drained.keys[j]
          /\ last_run.polled # Some(t) =>
                \E j \in DOMAIN ready_queue : ready_queue[j] = t

\* a woken task that the next run_once left in the ready queue
C23_Witness ==
    \E t \in Woken : last_run.polled # None /\ last_run.polled # Some(t)

\* the poll that ended was cut by the timer after a whole quantum in which
\* the thread made no syscall, and another task was runnable
Preempted(end) ==
    /\ end.how = "yield"
    /\ end.trap = "timer"
    /\ end.armed = max_run_duration
    /\ end.quiet
    /\ end.runnable # {}

\* C24: when the timer cuts a thread that ran a whole quantum without a
\* syscall while another task was runnable, the thread loop yields and the
\* next task the executor polls is another one.
C24_PreemptedWaitsItsTurn ==
    \A t \in last_run.polled :
        Preempted(last_run.after) => Some(t) # last_run.after.id

\* the same for every poll the timer cut, whatever the thread did before
C24_AnyTimerYield ==
    \A t \in last_run.polled :
        (last_run.after.trap = "timer" /\ last_run.after.runnable # {})
            => Some(t) # last_run.after.id

\* a task was polled after another one had been preempted
C24_Witness ==
    /\ last_run.polled # None
    /\ Preempted(last_run.after)
    /\ last_end = last_run.after

\* C25: a thread that invoked TaskExit or trapped on an exception is not
\* executed again: its thread loop has returned, its task is neither in the
\* map of the executor nor being polled.
C25_ExitedNeverRuns ==
    \A t \in exited : pc[t] = "done" /\ t \notin tasks /\ current # Some(t)

\* the same for the traps taken with some of the quantum left
C25_ExitedWithQuantumLeft ==
    (last_exec.trap \in {"exit", "exception"} /\ last_exec.resume # "Yield")
        => \A t \in last_exec.id : pc[t] = "done" /\ t \notin tasks /\ current # Some(t)

\* C30: each time a thread is about to be executed the timer is set to the
\* current tick plus the remaining quantum of the thread, that quantum is at
\* most the maximum run duration, and a thread loop that reaches its yield
\* has its remaining quantum back at the maximum run duration.
C30_TimerArmedWithQuantum ==
    [][\A t \in Ids :
          /\ (current = Some(t) /\ pc[t] = "user" /\ last_exec' # last_exec)
                => /\ last_exec'.set = Some(time + (remaining[t] \div internal_tick))
                   /\ last_exec'.at = time
                   /\ remaining[t] <= max_run_duration
          /\ (pc[t] # "yield_wait" /\ pc'[t] = "yield_wait")
                => remaining'[t] = max_run_duration]_vars

\* a thread executed with a part of its quantum left was preempted by the
\* timer set to that part, and has a full quantum again
C30_Witness ==
    \E t \in Ids :
        /\ last_exec.id = Some(t)
        /\ last_exec.trap = "timer"
        /\ last_exec.before > 0
        /\ last_exec.before < max_run_duration
        /\ pc[t] = "yield_wait"
        /\ remaining[t] = max_run_duration

\* the positions of a task's future that are reached only inside a poll:
\* behind an await that has returned, before the syscall is over
MidPoll == {"send1", "send2", "recv"}

\* C28: at most one task is being polled; the task being polled is the one
\* the current task id names and it is not in the map of the executor; a task
\* whose future is between two awaits is the current one, and a live task
\* that is not being polled is in the map, the current task id being unset
\* when no task is being polled.
C28_OnePollAtATime ==
    /\ Cardinality(current) <= 1
    /\ \A t \in current : t \notin tasks /\ t \in alive
                            /\ pc[t] \in MidPoll \cup {"user"}
    /\ \A t \in Ids : pc[t] \in MidPoll => current = Some(t)
    /\ \A t \in alive : t \notin tasks => current = Some(t)

\* a task is polled again behind an await while other tasks sit in the map
\* and in the ready queue
C28_Witness ==
    \E t \in current :
        /\ pc[t] \in MidPoll
        /\ tasks # {}
        /\ ready_queue # <<>>
        /\ t \notin tasks

\* --------------------------------------------- the service registry alone
InitRegistry == Boot(2, 0, 0) /\ MemBoot(WholeMap) /\ LaterBoot

NextRegistry ==
    \/ \E name \in Names, id \in Ids : register(name, id)
    \/ \E name \in Names : lookup(name)

SpecRegistry == InitRegistry /\ [][NextRegistry]_vars

\* C27: register inserts its entry exactly when the name is unused and the
\* id provides no name yet, and changes nothing otherwise; so each name has
\* at most one entry, each id is in at most one entry, and lookup gives the
\* id whose register of that name returned Ok (None when there was none).
C27_RegistryOneToOne ==
    /\ (last_register.result # "none") =>
          \E name \in last_register.name, id \in last_register.id :
              LET before == last_register.before
                  free == (~\E e \in before : e[1] = name) /\ (~\E e \in before : e[2] = id)
              IN /\ (last_register.result = "Ok") <=> free
                 /\ registry = IF free THEN before \cup {<<name, id>>} ELSE before
    /\ \A name \in Names : Cardinality({e \in registry : e[1] = name}) <= 1
    /\ \A id \in Ids : Cardinality({e \in registry : e[2] = id}) <= 1
    /\ \A name \in Names : /\ Cardinality(owner[name]) <= 1
                            /\ {e[2] : e \in {f \in registry : f[1] = name}} = owner[name]
    /\ last_lookup.value = last_lookup.owners

\* two names are registered by two tasks, a task that asked for a second
\* name was turned down, and a lookup has found a provider
C27_Witness ==
    /\ Cardinality(registry) >= 2
    /\ last_register.result = "TaskAlreadyRegistered"
    /\ last_lookup.value # None
    /\ \E name \in Names : owner[name] = {} /\ last_register.name = Some(name)

\* ------------------------------------------- the user-operation gate alone
InitGate == Boot(2, 0, 0) /\ MemBoot(WholeMap) /\ LaterBoot

NextGate ==
    \/ \E on \in BOOLEAN : set_irq(on)
    \/ \E entry \in {"copy_from", "copy_to"} : save_and_disable(entry)
    \/ start_swap
    \/ start_allow
    \/ start_assert
    \/ \E faults \in BOOLEAN : copy(faults)
    \/ end_forbid
    \/ end_swap
    \/ end_assert
    \/ without_restore
    \/ kernel_trap_handler

SpecGate == InitGate /\ [][NextGate]_vars

\* C26: supervisor access to user pages is on only with the interrupts off
\* and USER_OPERATION set; start_user_operation never finds the flag already
\* set; and once a user operation is over the access is off, the flag is
\* clear and the interrupts are as they were before it.  No interrupt is
\* taken inside a user operation, whose only panic is a faulting copy.
C26_GateDiscipline ==
    /\ sum => (~sie /\ user_operation)
    /\ gate_pc # "nested"
    /\ (gate_pc \in {"start_allowed", "open"}) => ~was_in_operation
    /\ (gate_pc = "idle") => (~sum /\ ~user_operation)
    /\ gate_log.over => gate_log.after = gate_log.before
    /\ (panicked /\ gate_pc # "idle") => gate_pc = "trapped"

\* a user operation entered with the interrupts enabled is over, the
\* interrupts are enabled again, and a later one is open
C26_Witness ==
    /\ gate_log.n >= 2
    /\ gate_pc = "open"
    /\ sum
    /\ irq_state = "Enabled"

\* a user operation entered with the interrupts enabled has returned
C26_Returned ==
    gate_pc = "idle" /\ gate_log.over /\ gate_log.before /\ sie

\* ------------------------------------------------- the wait queues alone
\* WaitFuture::poll, first poll, for a task that calls wait(queue) on the
\* send queue of `to`, of which it holds a clone: push the waker, Ready if
\* the queue is poisoned, Pending otherwise.  The owner of the queue may
\* have exited since the clone was made.
wait_on(t, to) ==
    /\ MaySyscall(t)
    /\ Issued(t)
    /\ send_to' = [send_to EXCEPT ![t] = Some(to)]
    /\ ipc_send_queue' = [ipc_send_queue EXCEPT ![to] = Append(@, t)]
    /\ IF to \in poisoned_send
       THEN UNCHANGED <<tasks, current, pc>>
       ELSE /\ pc' = [pc EXCEPT ![t] = "send_wait"]
            /\ Suspend(t)
    /\ UNCHANGED <<ready_ids, ready_queue, ipc_receive_queue, ipc_reply_queue,
                   slotVars, lifeVars, send_message, result, panicked,
                   last_received, replies_for>>
    /\ UNCHANGED <<memVars, laterVars>>

\* wait(queue).await returns to its caller
wait_over(t) ==
    /\ Running(t)
    /\ pc[t] = "send1"
    /\ pc' = [pc EXCEPT ![t] = "user"]
    /\ send_to' = [send_to EXCEPT ![t] = None]
    /\ UNCHANGED <<execVars, queueVars, slotVars, lifeVars, send_message, result,
                   panicked, histVars>>
    /\ UNCHANGED <<memVars, laterVars>>

\* Queue::wake_one and Queue::wake_all on the send queue of a live task,
\* reached through its LocalDataSet
wake(t, to, all) ==
    /\ InUser(t)
    /\ exists(to)
    /\ LET woken == IF all THEN ipc_send_queue[to] ELSE wake_one(ipc_send_queue[to])
       IN /\ ready_ids' = ready_ids \o woken
          /\ panicked' = WakeOverflow(woken)
          /\ ipc_send_queue' = [ipc_send_queue EXCEPT ![to] =
                IF all \/ @ = <<>> THEN <<>> ELSE Tail(@)]
    /\ UNCHANGED <<tasks, current, ready_queue, ipc_receive_queue, ipc_reply_queue,
                   slotVars, lifeVars, futVars, result, histVars>>
    /\ UNCHANGED <<memVars, laterVars>>

InitWait == Boot(MaxTasks, MaxSyscalls, MaxTotal) /\ MemBoot(WholeMap) /\ LaterBoot

NextWait ==
    \/ RunOnce
    \/ \E t \in current, to \in Ids : wait_on(t, to)
    \/ \E t \in current : wait_over(t)
    \/ \E t \in current, to \in Ids, all \in BOOLEAN : wake(t, to, all)
    \/ \E t \in current : Exit(t)

SpecWait == InitWait /\ [][NextWait]_vars

\* the positions of a task's future inside a WaitFuture that returned Pending
WaitPcs == {"send_wait", "reply_wait", "recv_wait"}

\* the wakers of the queue the WaitFuture of task t was made for
WaitsOn(t) ==
    CASE pc[t] = "send_wait" -> ipc_send_queue[TheOne(send_to[t])]
      [] pc[t] = "reply_wait" -> ipc_reply_queue[TheOne(send_to[t])]
      [] pc[t] = "recv_wait" -> ipc_receive_queue[t]
      [] OTHER -> <<>>

\* that queue is poisoned (a receive queue never is)
WaitsOnPoisoned(t) ==
    \/ pc[t] = "send_wait" /\ TheOne(send_to[t]) \in poisoned_send
    \/ pc[t] = "reply_wait" /\ TheOne(send_to[t]) \in poisoned_reply

Holds(q, t) == \E i \in DOMAIN q : q[i] = t

\* task t pushes its waker on a queue of task `to` in this step
Registers(t, to) ==
    \/ ipc_send_queue'[to] = Append(ipc_send_queue[to], t)
    \/ ipc_reply_queue'[to] = Append(ipc_reply_queue[to], t)
    \/ to = t /\ ipc_receive_queue'[to] = Append(ipc_receive_queue[to], t)

\* the queue on which t registers in this step is poisoned
RegistersOnPoisoned(t, to) ==
    \/ ipc_send_queue'[to] = Append(ipc_send_queue[to], t) /\ to \in poisoned_send
    \/ ipc_reply_queue'[to] = Append(ipc_reply_queue[to], t) /\ to \in poisoned_reply

\* C29: the poll in which a task registers its waker on a queue returns
\* Pending (the task leaves the processor inside the wait) unless the queue
\* is poisoned, and then the task goes on at once; the next poll of a task
\* inside a wait returns Ready without registering again; and the waker of
\* a task that is polled again inside a wait on a queue that is not poisoned
\* is no longer in that queue.
C29_WaitFuture ==
    [][\A t \in Ids :
          /\ \A to \in Ids :
                (current = Some(t) /\ Registers(t, to)) =>
                    IF RegistersOnPoisoned(t, to)
                    THEN current' = Some(t) /\ pc'[t] \notin WaitPcs
                    ELSE current' = None /\ pc'[t] \in WaitPcs /\ t \in tasks'
          /\ (pc[t] \in WaitPcs /\ current' = Some(t)) =>
                /\ pc'[t] \notin WaitPcs
                /\ pc'[t] = Resumed(pc[t])
                /\ UNCHANGED queueVars
                /\ (WaitsOnPoisoned(t) \/ ~Holds(WaitsOn(t), t))]_vars

\* a task that waited on the queue of a live task is polled again, its waker
\* gone from that queue, while a waker that met a poisoned queue lies in it
C29_Witness ==
    /\ \E t \in current :
          /\ pc[t] = "send1"
          /\ TheOne(send_to[t]) \notin poisoned_send
          /\ ~Holds(ipc_send_queue[TheOne(send_to[t])], t)
    /\ \E to \in poisoned_send : ipc_send_queue[to] # <<>>

\* in the message passing of the kernel: a sender that waited for its reply
\* is polled again after the reply has been stored and its waker taken off
\* the reply queue
C29_ResumedForReply ==
    \E t \in current :
        /\ pc[t] = "send2"
        /\ ipc_reply[t] # None
        /\ ~Holds(ipc_reply_queue[TheOne(send_to[t])], t)
        /\ TheOne(send_to[t]) \notin poisoned_reply

\* a waker left in a poisoned queue
C29_StaleWaker ==
    \E to \in Ids :
        \/ (to \in poisoned_send /\ ipc_send_queue[to] # <<>>)
        \/ (to \in poisoned_reply /\ ipc_reply_queue[to] # <<>>)

\* the thread of task t goes on behind the await of its syscall in this
\* step, and the clock has advanced since the syscall was entered: other
\* threads have been executed in between
ResumesAfterOthers(t) ==
    /\ current = Some(t)
    /\ pc[t] = "recv"
    /\ pc'[t] # "recv"
    /\ since_boot(time) > trap_start[t]

\* C31: a thread whose syscall was suspended in an await while other tasks
\* were polled goes on with a full quantum: it is not made to yield and its
\* remaining quantum is the maximum run duration.
C31_FreshQuantumAfterAwait ==
    [][\A t \in Ids :
          ResumesAfterOthers(t) =>
              pc'[t] = "user" /\ remaining'[t] = max_run_duration]_vars

\* what the loop does instead: the time between the entry of the syscall and
\* its return, the time spent descheduled included, is taken off the quantum
C31_AwaitIsCharged ==
    [][\A t \in Ids :
          (ResumesAfterOthers(t) /\ pc'[t] = "user") =>
              remaining'[t] = saturating_sub(remaining[t],
                                             saturating_sub(since_boot(time'),
                                                            trap_start[t]))]_vars

\* the keys in the ready queue when the drain of the last run_once inserted
\* the j-th woken id: the keys it found and the keys it gave to the ids
\* inserted before
KeysBefore(j) ==
    {last_run.found.keys[i] : i \in DOMAIN last_run.found.keys}
        \cup {KeyOf(last_run.woken[i]) : i \in {k \in Inserted : k < j}}

\* C32: the key a woken id receives is at least the smallest key in the
\* ready queue at the moment it is inserted, the keys of the ids inserted
\* earlier by the same drain included.
C32_KeyAtLeastSmallest ==
    last_run.n > 0 =>
        \A j \in Inserted :
            \/ KeysBefore(j) = {}
            \/ KeyOf(last_run.woken[j]) >= Lowest(KeysBefore(j))

\* what the drain does keep: no key is below the smallest key the drain
\* found in the queue
C32_KeyAtLeastFound ==
    last_run.n > 0 =>
        \A j \in Inserted :
            \/ last_run.found.keys = <<>>
            \/ KeyOf(last_run.woken[j]) >= last_run.found.keys[1]

\* the last call, a deallocate_range(base, count), had to be turned down:
\* the base is outside RAM_START ..= RAM_END or not a multiple of the page
\* size, the range ends behind the last frame, or one of its frames was FREE
MustBeRejected ==
    LET base == TheOne(last_call.base)
        start == (base - RAM_START) \div PAGE_SIZE
    IN \/ base < RAM_START
       \/ base > RAM_END
       \/ base % PAGE_SIZE # 0
       \/ start + last_call.count > NFrames
       \/ \E f \in start .. (start + last_call.count - 1) :
              "FREE" \in last_call.before[f]

\* C33: deallocate_range leaves every frame that was FREE as it was, and a
\* call whose range holds a FREE frame, whose base is not page-aligned or
\* whose range leaves the directory panics; any other call returns.
C33_NoDoubleFree ==
    (last_call.op = "deallocate_range") =>
        /\ \A f \in FrameIds :
              "FREE" \in last_call.before[f] => bitmap[f] = last_call.before[f]
        /\ MustBeRejected <=> last_call.panic
        /\ last_call.panic => panicked

\* a range that begins with an allocated frame and runs into a FREE one: the
\* call panics after it released the frames before the FREE one
C33_Witness ==
    /\ last_call.op = "deallocate_range"
    /\ last_call.panic
    /\ panicked
    /\ bitmap # last_call.before

\* ------------------------------------------------ address translation
InitTranslate ==
    /\ Boot(2, 0, 0) /\ MemBoot(WholeMap)
    /\ SchedBoot /\ RegistryBoot /\ GateBoot /\ CopyBoot /\ LockBoot
    /\ translation \in {[phys |-> p, virt |-> NotTranslated,
                         back |-> NotTranslated, step |-> "input"] :
                            p \in PhysicalInputs}

NextTranslate ==
    \/ \E overflow_checks \in BOOLEAN : to_virtual(overflow_checks)
    \/ \E overflow_checks \in BOOLEAN : to_physical(overflow_checks)

SpecTranslate == InitTranslate /\ [][NextTranslate]_vars

\* the physical addresses the window that maps physical memory can hold
InIdentityWindow(phys) == KERNEL_START + phys < KERNEL_VIRTUAL_BASE

\* C34: translate_physical returns None for every physical address whose
\* kernel-virtual address would lie outside the window that maps physical
\* memory, and for every address it accepts, translate_virtual_kernel of the
\* result is the address itself.
C34_RejectsOutsideWindow ==
    /\ (translation.step # "input" /\ ~InIdentityWindow(translation.phys))
        => translation.virt = Returns(None)
    /\ translation.step = "physical"
        => translation.back = Returns(translation.phys)

\* what the code does: inside the window the round trip is the identity, past
\* the window and up to the end of the kernel window the address is accepted
\* and comes back as an address of the kernel image, and beyond that the
\* kernel panics; None is never returned
C34_RoundTripInsideWindow ==
    translation.step # "input" =>
        /\ translation.virt # Returns(None)
        /\ translation.virt.panic <=> KERNEL_START + translation.phys >= WORD
        /\ translation.step = "physical" =>
              translation.back =
                  IF InIdentityWindow(translation.phys)
                  THEN Returns(translation.phys)
                  ELSE Returns(translation.phys - (KERNEL_VIRTUAL_BASE - KERNEL_START)
                                   + KERNEL_PHYSICAL_BASE)

C34_AcceptedPastWindow ==
    /\ translation.step = "physical"
    /\ ~InIdentityWindow(translation.phys)
    /\ translation.back # Returns(translation.phys)

\* ------------------------------------------- user copies of the threads
InitCopy == Boot(2, 0, 0) /\ MmuBoot /\ LaterBoot

NextCopy ==
    \/ \E t \in Ids : pick(t)
    \/ \E t \in current : execute(t)
    \/ \E t \in current, yields \in BOOLEAN : handle_interrupt(t, yields)
    \/ \E t \in current, call \in {"send", "receive", "reply"}, ready \in BOOLEAN :
          handle_syscall(t, call, ready)
    \/ \E t \in current : root_table_set_current(t)
    \/ \E t \in current, fails \in BOOLEAN : user_copy(t, fails)
    \/ \E t \in current, outcome \in {"ready", "again", "destroyed"} :
          resume_wait(t, outcome)

SpecCopy == InitCopy /\ [][NextCopy]_vars

\* C35: every gated copy runs while the root table of the thread that owns
\* the buffer is the active one, the write-back after an IPC wait during
\* which other threads ran included.
C35_CopyUnderOwnTable ==
    copy_log.entry # "none" => copy_log.table = InRoot(RootOf(copy_log.owner))

C35_Witness ==
    /\ copy_log.entry = "copy_to"
    /\ copy_log.waited
    /\ copy_log.between # {}
    /\ copy_log.owner \notin copy_log.between
    /\ copy_log.table = InRoot(RootOf(copy_log.owner))

\* ------------------------------------- the locks of send and of receive
InitLocks == Boot(MaxTasks, 0, 0) /\ MemBoot(WholeMap) /\ LaterBoot

NextLocks ==
    \/ \E t \in Ids, call \in {"send", "receive"}, to \in Ids : begin(t, call, to)
    \/ \E t \in current : enter(t)
    \/ \E t \in current : \E next \in After(lock_pc[t].at) : leave(t, next)
    \/ \E t \in current : suspend(t)
    \/ \E t \in Ids : resume(t)

SpecLocks == InitLocks /\ [][NextLocks]_vars

\* C36: a task that is suspended in an await of send or of receive holds no
\* lock: neither a mutex of a LocalDataSet nor the lock of the map.
C36_NoLockAcrossWait ==
    \A t \in Ids : lock_pc[t].phase = "parked" => held_by[t] = {}

\* a task is parked in receive while another one probes its state under its
\* lock
C36_Witness ==
    \E t \in Ids : \E u \in Ids \ {t} :
        /\ lock_pc[t].at = "receive_wait"
        /\ lock_pc[t].phase = "parked"
        /\ lock_pc[t].again
        /\ held_by[t] = {}
        /\ lock_pc[u].at = "send_probe"
        /\ held_by[u] = {MapLock, StateLock(t)}

\* ------------------------------------------------- wake-up bookkeeping
\* how often id t occurs in a queue
Occurrences(queue, t) == Cardinality({i \in DOMAIN queue : queue[i] = t})

\* the times t stands in ready_ids and in the ready queue
Queued(t) == Occurrences(ready_ids, t) + Occurrences(ready_queue, t)

\* the times the waker of t is registered in the wait queues of the ids of S
RECURSIVE RegisteredIn(_, _)
RegisteredIn(S, t) ==
    IF S = {} THEN 0
    ELSE LET u == CHOOSE x \in S : TRUE
         IN Occurrences(ipc_receive_queue[u], t)
              + Occurrences(ipc_reply_queue[u], t)
              + Occurrences(ipc_send_queue[u], t)
              + RegisteredIn(S \ {u}, t)

\* the task is in the executor's map: it is not being polled and has not
\* completed
Suspended(t) == t \in tasks

\* the parts of C37
C37_QueuedOnce == \A t \in Ids : Queued(t) <= 1

C37_OneWakeSource ==
    \A t \in Ids : Suspended(t) => Queued(t) + RegisteredIn(Ids, t) = 1

C37_PushNeverFails == Len(ready_ids) <= MAX_TASKS /\ Len(ready_ids) <= Cardinality(Ids)

C37_NoCompletedQueued == \A t \in Ids : pc[t] = "done" => Queued(t) = 0

\* C37: no id stands more than once in ready_ids and the ready queue taken
\* together; a task that is suspended has exactly one pending wake-up, its
\* id queued or its waker registered in one wait queue; so ready_ids, which
\* has room for MAX_TASKS ids, never overflows, and no id of a completed task
\* is queued for run_once to pop.
C37_WakeBookkeeping ==
    /\ C37_QueuedOnce
    /\ C37_OneWakeSource
    /\ C37_PushNeverFails
    /\ C37_NoCompletedQueued

\* one task has completed, a second is parked with its waker in a wait queue,
\* a third has been woken and waits in ready_ids
C37_Witness ==
    \E t \in Ids : \E u \in Ids \ {t} : \E v \in Ids \ {t, u} :
        /\ pc[t] = "done"
        /\ Suspended(u) /\ RegisteredIn(Ids, u) = 1 /\ Queued(u) = 0
        /\ Suspended(v) /\ Occurrences(ready_ids, v) = 1 /\ pc[v] \in WaitPcs

\* ------------------------------------------------------ the echo service
\* The identifier that connect("echo") hands to the clients: the scenario
\* lets the lowest task run the service, every other task is a client.
Echo == Lowest(Ids)
Clients == Ids \ {Echo}

\* user/echo main: receive a message, reply to its sender with the same
\* status and payload, again
echo_main(t) ==
    /\ t = Echo
    /\ InUser(t)
    /\ IF result[t].op = "receive" /\ result[t].err = "Ok"
       THEN LET msg == TheOne(result[t].value)
            IN SysReply(t, msg.sender, msg.kind, msg.payload_len, msg.payload)
       ELSE SysReceive(t)

\* a client sends EchoSends messages to the service, one after the other,
\* and exits
client_main(t, kind, buf) ==
    /\ t \in Clients
    /\ InUser(t)
    /\ IF nsys[t] < EchoSends
       THEN SysSend(t, Echo, kind, MaxData, buf)
       ELSE Exit(t)

InitEcho == Boot(MaxTasks, EchoSyscalls, EchoTotal) /\ MemBoot(WholeMap) /\ LaterBoot

NextEcho ==
    \/ RunOnce
    \/ \E t \in current : echo_main(t)
    \/ \E t \in current : Recv(t)
    \/ \E t \in current, kind \in Kinds, buf \in UserBufs : client_main(t, kind, buf)
    \/ \E t \in current : Send1(t)
    \/ \E t \in current : Send2(t)

SpecEcho == InitEcho /\ [][NextEcho]_vars

\* executor::run calls run_once for ever and a task that is polled runs up
\* to its next await: a step that is possible is taken
SpecEchoFair == SpecEcho /\ WF_vars(NextEcho)

\* the send of client t has returned the reply made for its own message
Answered(t) ==
    /\ result[t].op = "send"
    /\ result[t].err = "Ok"
    /\ result[t].re = result[t].tag

\* C38: with the echo service alive and two clients sending to it, every send
\* eventually returns the reply to its own message.
C38_EverySendAnswered ==
    \A t \in Clients : [](pc[t] = "send1" => <>Answered(t))

\* the service never runs out of the syscalls it is allowed, so a client
\* that is left waiting is not waiting for a service that has stopped
C38_EchoKeepsServing ==
    /\ Echo \in alive
    /\ ~panicked
    /\ InUser(Echo) => nsys[Echo] < budget.each /\ Total < budget.total

\* what goes wrong: a message deposited for the service is taken out of the
\* slot by the service alone (fails: the next send overwrites it)
C38_NoMessageLost ==
    [][(ipc_message[Echo] # None /\ ipc_message'[Echo] # ipc_message[Echo])
          => current = Some(Echo)]_vars

\* ------------------------------------------------- one reply for a send
\* the step is a reply of task r to task a that returns Ok
ReplySucceeds(r, a) ==
    /\ nsys'[r] = nsys[r] + 1
    /\ result'[r].op = "reply"
    /\ result'[r].err = "Ok"
    /\ result'[r].to = Some(a)

\* C39: a reply to task a succeeds only while a is executing a send, and only
\* if no reply has been deposited for that send yet; so no reply is left in
\* the slot of a for a later send to return.
C39_OneReplyPerSend ==
    [][\A r \in Ids, a \in Ids :
          ReplySucceeds(r, a) => (SendInProgress(a) # NoTag /\ ipc_reply[a] = None)]_vars

\* what the code does: a reply succeeds whenever the waiting state of its
\* target names the replier, whether or not the target is in a send
C39_ReplyFollowsState ==
    [][\A r \in Ids, a \in Ids :
          ReplySucceeds(r, a) => ipc_waiting_state[a] = StWaitingForReply(r)]_vars

\* -------------------------------------------------- live allocations
\* the frames of the range the call returned
RangeOf(call) ==
    phys2index(TheOne(call.ret)) .. (phys2index(TheOne(call.ret)) + call.count - 1)

\* the step is an allocate_range that returns a range
Allocates == last_call'.n = last_call.n + 1
                /\ last_call'.op = "allocate_range"
                /\ last_call'.ret # None

\* C40: as long as deallocate_range is only given frames that were handed
\* out and not yet returned, a range that allocate_range returns shares no
\* frame with the allocations that are live.
C40_LiveRangesDisjoint ==
    [][(Allocates /\ ~stray) => (RangeOf(last_call') \cap held = {})]_vars

\* a range handed out while other frames are live, after a release
C40_Witness ==
    /\ ~stray /\ ~panicked
    /\ last_call.op = "allocate_range"
    /\ last_call.ret # None
    /\ last_call.count >= 2
    /\ last_call.prev.op = "deallocate_range"
    /\ held \ RangeOf(last_call) # {}


====
